---- MODULE Spec2Model ----
(***************************************************************************)
(* A model of nest-d2: the identifier normalizers, the dependency          *)
(* extractor, the component diagram renderer, the metadata reconciler      *)
(* (parseExistingD2File) and the generate command that chains them.        *)
(*                                                                         *)
(* A JavaScript string is a sequence of one-character strings, so that     *)
(* replace, split, trim, startsWith and includes are computed character by *)
(* character as the code computes them.  A text file is the sequence of    *)
(* its lines (content.split('\n')); no modelled string holds a line break. *)
(* An optional value (a field that may be undefined) is <<>> when it is    *)
(* undefined and <<v>> when it is v.                                       *)
(***************************************************************************)
EXTENDS Integers, Sequences, FiniteSets, TLC

VARIABLES
  pc,                   \* position of the running operation
  fn,                   \* the pure function under call, "" when the command runs
  inp,                  \* the argument of the call
  out,                  \* the value the call returned
  project,              \* the modules declared in the project's sources
  artifact,             \* component-diagram.d2: Undefined, or <<its lines>>
  cmdModules,              \* the generate command's 'modules'
  cmdContainerTitle,       \* its 'containerTitle'
  isInteractive,        \* its 'isInteractive'
  cmdDefaultTechnology,    \* its 'defaultTechnology'
  existingMetadataMap,  \* its 'existingMetadataMap'
  enrichedModules,      \* its 'enrichedModules'
  runs,                 \* how many times the command was started
  previousArtifact,     \* the artifact as the running command found it
  answered,             \* per run, what its prompts resolved to and what was typed
  tsconfig,             \* whether tsconfig.json stands in the project root
  classArtifacts,       \* the class diagrams: Undefined, or <<what generateAll wrote>>
  extracted             \* the analyzers the running command has called

fnVars == <<fn, inp, out>>

cliVars == <<project, artifact, cmdModules, cmdContainerTitle, isInteractive, cmdDefaultTechnology,
             existingMetadataMap, enrichedModules, runs, previousArtifact, answered,
             tsconfig, classArtifacts, extracted>>

vars == <<pc, fn, inp, out, project, artifact, cmdModules, cmdContainerTitle, isInteractive,
          cmdDefaultTechnology, existingMetadataMap, enrichedModules, runs,
          previousArtifact, answered, tsconfig, classArtifacts, extracted>>

(***************************************************************************)
(* Characters and the String methods the code uses                         *)
(***************************************************************************)
Digits == {"0","1","2","3","4","5","6","7","8","9"}

UpperSeq == <<"A","B","C","D","E","F","G","H","I","J","K","L","M",
              "N","O","P","Q","R","S","T","U","V","W","X","Y","Z">>

LowerSeq == <<"a","b","c","d","e","f","g","h","i","j","k","l","m",
              "n","o","p","q","r","s","t","u","v","w","x","y","z">>

\* the class [a-zA-Z0-9_]
WordChars ==
  {UpperSeq[i] : i \in 1..26} \cup {LowerSeq[i] : i \in 1..26} \cup Digits \cup {"_"}

\* the class \s, as far as the modelled alphabet goes
WhiteSpace == {" "}

Min(S) == CHOOSE x \in S : \A y \in S : x <= y

Undefined == <<>>

Some(v) == <<v>>

\* JavaScript truthiness of an optional string: undefined and '' are falsy
Truthy(o) == o # <<>> /\ o[1] # <<>>

\* a || b on optional strings
OrElse(a, b) == IF Truthy(a) THEN a ELSE b

StartsWith(s, p) == Len(s) >= Len(p) /\ SubSeq(s, 1, Len(p)) = p

Includes(s, p) == \E i \in 1..(Len(s) - Len(p) + 1) : SubSeq(s, i, i + Len(p) - 1) = p

\* the first index >= from at which character c stands in s, 0 when there is none
IndexOfChar(s, c, from) ==
  LET hits == {i \in from..Len(s) : s[i] = c}
  IN  IF hits = {} THEN 0 ELSE Min(hits)

Trim(s) ==
  LET keep == {i \in 1..Len(s) : s[i] \notin WhiteSpace}
  IN  IF keep = {} THEN <<>>
      ELSE SubSeq(s, Min(keep), CHOOSE j \in keep : \A k \in keep : k <= j)

ToLowerCase(s) ==
  [i \in 1..Len(s) |->
     IF \E k \in 1..26 : UpperSeq[k] = s[i]
     THEN LowerSeq[CHOOSE k \in 1..26 : UpperSeq[k] = s[i]]
     ELSE s[i]]

\* s.split(separator) for a separator that is one character of seps
RECURSIVE Split(_, _)
Split(s, seps) ==
  LET cuts == {i \in 1..Len(s) : s[i] \in seps}
  IN  IF cuts = {} THEN <<s>>
      ELSE <<SubSeq(s, 1, Min(cuts) - 1)>> \o Split(SubSeq(s, Min(cuts) + 1, Len(s)), seps)

\* s.replace(/[chars]/g, '')
RemoveChars(s, chars) == SelectSeq(s, LAMBDA c : c \notin chars)

(***************************************************************************)
(* Identifier normalizer                                                   *)
(***************************************************************************)
\* a slip: the underscore prefix is added whatever the first character is
sanitizeName_AlwaysPrefix(name) ==
  <<"_">> \o [i \in 1..Len(name) |-> IF name[i] \in WordChars THEN name[i] ELSE "_"]

sanitizeName(name) ==
  LET replaced == [i \in 1..Len(name) |-> IF name[i] \in WordChars THEN name[i] ELSE "_"]
  IN  IF Len(replaced) > 0 /\ replaced[1] \in Digits
      THEN <<"_">> \o replaced
      ELSE replaced

Str_import == <<"i","m","p","o","r","t","(">>

Str_undefined == <<"u","n","d","e","f","i","n","e","d">>

Str_null == <<"n","u","l","l">>

\* typeText.replace(/import\([^)]+\)\./g, '')
RECURSIVE StripImports(_)
StripImports(s) ==
  IF s = <<>> THEN <<>>
  ELSE LET close == IndexOfChar(s, ")", Len(Str_import) + 1)
       IN  IF /\ StartsWith(s, Str_import)
              /\ close >= Len(Str_import) + 2
              /\ Len(s) >= close + 1
              /\ s[close + 1] = "."
           THEN StripImports(SubSeq(s, close + 2, Len(s)))
           ELSE <<s[1]>> \o StripImports(Tail(s))

\* cleaned.replace(/\[\]/g, '')
RECURSIVE StripArrayBrackets(_)
StripArrayBrackets(s) ==
  IF s = <<>> THEN <<>>
  ELSE IF Len(s) >= 2 /\ s[1] = "[" /\ s[2] = "]"
       THEN StripArrayBrackets(SubSeq(s, 3, Len(s)))
       ELSE <<s[1]>> \o StripArrayBrackets(Tail(s))

\* cleaned.replace(/<[^>]+>/g, '')
RECURSIVE StripGenerics(_)
StripGenerics(s) ==
  IF s = <<>> THEN <<>>
  ELSE LET close == IndexOfChar(s, ">", 2)
       IN  IF s[1] = "<" /\ close >= 3
           THEN StripGenerics(SubSeq(s, close + 1, Len(s)))
           ELSE <<s[1]>> \o StripGenerics(Tail(s))

\* types.find(t => t !== 'undefined' && t !== 'null') || types[0]
FirstDefinedMember(types) ==
  LET ok == {i \in 1..Len(types) : types[i] # Str_undefined /\ types[i] # Str_null}
  IN  IF ok # {} /\ types[Min(ok)] # <<>> THEN types[Min(ok)] ELSE types[1]

ResolveUnion(s) ==
  IF Includes(s, <<"|">>)
  THEN LET parts == Split(s, {"|"})
       IN  FirstDefinedMember([i \in 1..Len(parts) |-> Trim(parts[i])])
  ELSE s

LastPathSegment(s) ==
  IF Includes(s, <<"/">>) \/ Includes(s, <<"\\">>)
  THEN LET parts == Split(s, {"/", "\\"})
       IN  RemoveChars(parts[Len(parts)], {"\"", "'"})
  ELSE s

extractTypeName(typeText) ==
  Trim(LastPathSegment(ResolveUnion(StripGenerics(StripArrayBrackets(StripImports(typeText))))))

Str_string == <<"s","t","r","i","n","g">>

Str_number == <<"n","u","m","b","e","r">>

Str_boolean == <<"b","o","o","l","e","a","n">>

Str_any == <<"a","n","y">>

Str_unknown == <<"u","n","k","n","o","w","n">>

Str_void == <<"v","o","i","d">>

Str_never == <<"n","e","v","e","r">>

Str_String == <<"S","t","r","i","n","g">>

Str_Number == <<"N","u","m","b","e","r">>

Str_Boolean == <<"B","o","o","l","e","a","n">>

primitives ==
  {Str_string, Str_number, Str_boolean, Str_any, Str_unknown, Str_void, Str_never,
   Str_String, Str_Number, Str_Boolean, Str_undefined, Str_null}

\* a slip: the type name is compared as written, without toLowerCase()
isPrimitiveOrCommon_CaseSensitive(typeText) == extractTypeName(typeText) \in primitives

isPrimitiveOrCommon(typeText) == ToLowerCase(extractTypeName(typeText)) \in primitives

(***************************************************************************)
(* Module analysis: the names an array property of @Module({...}) yields   *)
(***************************************************************************)
\* An array element is [kind, expr, text]: text is element.getText(), expr the
\* text of its base expression (Module in Module.forRoot() and in Module.X,
\* the callee in f()).
extractArrayPropertyValues(elements) ==
  [i \in 1..Len(elements) |->
     CASE elements[i].kind = "Identifier" -> elements[i].text
       [] elements[i].kind = "CallOnPropertyAccess" -> elements[i].expr
       [] elements[i].kind = "Call" -> elements[i].expr
       [] elements[i].kind = "PropertyAccess" -> elements[i].expr
       [] OTHER -> elements[i].text]

(***************************************************************************)
(* Component diagram renderer                                              *)
(***************************************************************************)
HeaderLines ==
  <<
    <<"#"," ","N","e","s","t","J","S"," ","C","o","m","p","o","n","e","n","t"," ","D","i","a","g","r","a","m">>,
    <<>>,
    <<"d","i","r","e","c","t","i","o","n",":"," ","r","i","g","h","t">>,
    <<>>,
    <<"v","a","r","s",":"," ","{">>,
    <<" "," ","d","2","-","c","o","n","f","i","g",":"," ","{">>,
    <<" "," "," "," ","t","h","e","m","e","-","i","d",":"," ","3","0","3">>,
    <<" "," ","}">>,
    <<"}">>,
    <<>>,
    <<"c","l","a","s","s","e","s",":"," ","{">>,
    <<" "," ","c","o","m","p","o","n","e","n","t",":"," ","{">>,
    <<" "," "," "," ","s","h","a","p","e",":"," ","r","e","c","t","a","n","g","l","e">>,
    <<" "," "," "," ","s","t","y","l","e",".","f","i","l","l",":"," ","\"","#","6","3","B","E","F","2","\"">>,
    <<" "," "," "," ","s","t","y","l","e",".","b","o","r","d","e","r","-","r","a","d","i","u","s",":"," ","3","2">>,
    <<" "," ","}">>,
    <<" "," ","c","o","n","t","a","i","n","e","r","-","e","x","p","a","n","d","e","d",":"," ","{">>,
    <<" "," "," "," ","s","h","a","p","e",":"," ","r","e","c","t","a","n","g","l","e">>,
    <<" "," "," "," ","s","t","y","l","e",".","b","o","r","d","e","r","-","r","a","d","i","u","s",":"," ","3","2">>,
    <<" "," "," "," ","s","t","y","l","e",".","s","t","r","o","k","e","-","d","a","s","h",":"," ","3">>,
    <<" "," "," "," ","l","a","b","e","l",".","n","e","a","r",":"," ","b","o","t","t","o","m","-","l","e","f","t">>,
    <<" "," "," "," ","s","t","y","l","e",".","s","t","r","o","k","e",":"," ","\"","#","6","6","6","6","6","6","\"">>,
    <<" "," "," "," ","s","t","y","l","e",".","f","o","n","t","-","c","o","l","o","r",":"," ","\"","#","3","3","3","3","3","3","\"">>,
    <<" "," ","}">>,
    <<" "," ","c","o","n","t","a","i","n","e","r",":"," ","{">>,
    <<" "," "," "," ","s","h","a","p","e",":"," ","r","e","c","t","a","n","g","l","e">>,
    <<" "," "," "," ","s","t","y","l","e",".","f","i","l","l",":"," ","\"","#","2","3","A","2","D","9","\"">>,
    <<" "," "," "," ","s","t","y","l","e",".","b","o","r","d","e","r","-","r","a","d","i","u","s",":"," ","3","2">>,
    <<" "," ","}">>,
    <<" "," ","s","y","s","t","e","m",":"," ","{">>,
    <<" "," "," "," ","s","h","a","p","e",":"," ","r","e","c","t","a","n","g","l","e">>,
    <<" "," "," "," ","s","t","y","l","e",".","f","i","l","l",":"," ","\"","#","1","0","6","1","B","0","\"">>,
    <<" "," "," "," ","s","t","y","l","e",".","b","o","r","d","e","r","-","r","a","d","i","u","s",":"," ","3","2">>,
    <<" "," ","}">>,
    <<" "," ","e","x","t","e","r","n","a","l","-","s","y","s","t","e","m",":"," ","{">>,
    <<" "," "," "," ","s","h","a","p","e",":"," ","r","e","c","t","a","n","g","l","e">>,
    <<" "," "," "," ","s","t","y","l","e",".","f","i","l","l",":"," ","\"","#","8","C","8","4","9","6","\"">>,
    <<" "," "," "," ","s","t","y","l","e",".","b","o","r","d","e","r","-","r","a","d","i","u","s",":"," ","3","2">>,
    <<" "," ","}">>,
    <<"}">>,
    <<>>
  >>

Str_mdOpen == <<":"," ","|","m","d">>

Str_containerHeading == <<" "," ","#","#"," ">>

Str_containerTag == <<" "," ","*","*","[","C","o","n","t","a","i","n","e","r",":"," ","N","e","s","t","J","S","]","*","*">>

Str_blockOpen == <<"|"," ","{">>

Str_classContainerExpanded == <<" "," ","c","l","a","s","s",":"," ","[","c","o","n","t","a","i","n","e","r","-","e","x","p","a","n","d","e","d","]">>

Str_closeBrace == <<"}">>

Str_moduleHeading == <<" "," ","#","#","#"," ">>

Str_separator == <<" "," ","-","-","-">>

Str_componentTagOpen == <<" "," ","*","*","[","C","o","m","p","o","n","e","n","t",":"," ">>

Str_componentTagClose == <<"]","*","*">>

Str_classComponent == <<" "," ","c","l","a","s","s",":"," ","[","c","o","m","p","o","n","e","n","t","]">>

Str_providersOpen == <<" "," ","p","r","o","v","i","d","e","r","s",":"," ","P","r","o","v","i","d","e","r","s"," ","{">>

Str_shapeRectangle == <<" "," "," "," ","s","h","a","p","e",":"," ","r","e","c","t","a","n","g","l","e">>

Str_controllersOpen == <<" "," ","c","o","n","t","r","o","l","l","e","r","s",":"," ","C","o","n","t","r","o","l","l","e","r","s"," ","{">>

Str_nestedClose == <<" "," ","}">>

Str_arrow == <<" ","-",">"," ">>

Str_importsLabel == <<":"," ","i","m","p","o","r","t","s">>

\* this.sanitizeName(this.containerTitle.replace(/ /g, ""))
containerTitleUpperCamelCase(containerTitle) == sanitizeName(RemoveChars(containerTitle, {" "}))

\* the label of one module, one line of the file per element
LabelLines(module) ==
  <<Str_moduleHeading \o module.name, Str_separator>>
  \o (IF Truthy(module.technology)
      THEN <<Str_componentTagOpen \o module.technology[1] \o Str_componentTagClose>>
      ELSE <<>>)
  \o (IF Truthy(module.description)
      THEN <<<<>>, <<" ", " ">> \o module.description[1]>>
      ELSE <<>>)

\* a nested 'providers' or 'controllers' group
NestedGroup(open, names) ==
  IF Len(names) > 0
  THEN <<<<>>, open, Str_shapeRectangle>>
       \o [i \in 1..Len(names) |->
             <<" ", " ", " ", " ">> \o sanitizeName(names[i]) \o <<":", " ">> \o names[i]]
       \o <<Str_nestedClose>>
  ELSE <<>>

\* a slip: the brace that opens the block of a module stands on a line of its own
ModuleNode_BraceOnOwnLine(container, module, showNesting) ==
  <<container \o <<".">> \o sanitizeName(module.name) \o Str_mdOpen>>
  \o LabelLines(module)
  \o <<<<"|">>, <<"{">>, Str_classComponent>>
  \o (IF showNesting
      THEN NestedGroup(Str_providersOpen, module.providers)
           \o NestedGroup(Str_controllersOpen, module.controllers)
      ELSE <<>>)
  \o <<Str_closeBrace, <<>>>>

ModuleNode(container, module, showNesting) ==
  <<container \o <<".">> \o sanitizeName(module.name) \o Str_mdOpen>>
  \o LabelLines(module)
  \o <<Str_blockOpen, Str_classComponent>>
  \o (IF showNesting
      THEN NestedGroup(Str_providersOpen, module.providers)
           \o NestedGroup(Str_controllersOpen, module.controllers)
      ELSE <<>>)
  \o <<Str_closeBrace, <<>>>>

RECURSIVE ModuleNodes(_, _, _)
ModuleNodes(container, modules, showNesting) ==
  IF modules = <<>> THEN <<>>
  ELSE ModuleNode(container, Head(modules), showNesting)
       \o ModuleNodes(container, Tail(modules), showNesting)

ImportEdge(container, moduleName, importedModuleName) ==
  container \o <<".">> \o moduleName \o Str_arrow
  \o container \o <<".">> \o importedModuleName \o Str_importsLabel

\* modules.some(m => this.sanitizeName(m.name) === importedModuleName)
ImportExists(modules, importedModuleName) ==
  \E k \in 1..Len(modules) : sanitizeName(modules[k].name) = importedModuleName

\* a slip: the edge is rendered without looking the imported module up
EdgesOf_NoLookup(container, module, modules) ==
  [j \in 1..Len(module.imports) |->
     ImportEdge(container, sanitizeName(module.name), sanitizeName(module.imports[j]))]

\* the edges of one module, in the order of its import list
EdgesOf(container, module, modules) ==
  LET known == SelectSeq(module.imports,
                         LAMBDA imp : ImportExists(modules, sanitizeName(imp)))
  IN  [j \in 1..Len(known) |->
         ImportEdge(container, sanitizeName(module.name), sanitizeName(known[j]))]

RECURSIVE ImportEdges(_, _, _)
ImportEdges(container, rest, modules) ==
  IF rest = <<>> THEN <<>>
  ELSE EdgesOf(container, Head(rest), modules) \o ImportEdges(container, Tail(rest), modules)

\* ComponentDiagramGenerator.generate, as the lines of lines.join('\n')
generate(containerTitle, modules, showNesting) ==
  LET container == containerTitleUpperCamelCase(containerTitle)
  IN  HeaderLines
      \o << container \o Str_mdOpen,
            Str_containerHeading \o containerTitle,
            Str_containerTag,
            Str_blockOpen,
            Str_classContainerExpanded,
            Str_closeBrace,
            <<>> >>
      \o ModuleNodes(container, modules, showNesting)
      \o ImportEdges(container, modules, modules)

(***************************************************************************)
(* Metadata reconciler: parseExistingD2File                                *)
(***************************************************************************)
Str_md == <<"|","m","d">>

Str_colonMd == <<":"," ","|","m","d">>

Str_heading == <<"#","#","#">>

Str_componentTag == <<"[","C","o","m","p","o","n","e","n","t",":">>

Str_dashes == <<"-","-","-">>

Str_class == <<"c","l","a","s","s",":">>

Str_NestJS == <<"N","e","s","t","J","S">>

EmptyMetadata == [technology |-> Undefined, description |-> Undefined]

\* metadataMap.get(key) || {}
GetOrEmpty(map, key) == IF key \in DOMAIN map THEN map[key] ELSE EmptyMetadata

\* metadataMap.set(key, value)
MapSet(map, key, value) ==
  [k \in (DOMAIN map) \cup {key} |-> IF k = key THEN value ELSE map[k]]

\* containerName.replace(/[^a-zA-Z0-9_]/g, '_').replace(/^(\d)/, '_$1')
sanitizedContainer(containerName) == sanitizeName(containerName)

\* trimmed.match(new RegExp(`^${sanitizedContainer}\\.([^:]+):`)), then
\* match[1].trim(); trimmed is known to start with the container and a dot
ModuleBlockMatch(trimmed, container) ==
  LET from  == Len(container) + 2
      colon == IndexOfChar(trimmed, ":", from)
  IN  IF colon > from THEN Some(Trim(SubSeq(trimmed, from, colon - 1))) ELSE Undefined

\* trimmed.replace(/^###\s*/, '').trim()
HeadingName(trimmed) == Trim(SubSeq(trimmed, Len(Str_heading) + 1, Len(trimmed)))

\* trimmed.match(/\[Component:\s*([^\]]+)\]/), then match[1].trim(): the
\* leftmost tag that is followed by at least one character and a ']'
TechnologyMatch(trimmed) ==
  LET n      == Len(Str_componentTag)
      starts == {p \in 1..(Len(trimmed) - n + 1) :
                   /\ SubSeq(trimmed, p, p + n - 1) = Str_componentTag
                   /\ IndexOfChar(trimmed, "]", p + n) > p + n}
  IN  IF starts = {} THEN Undefined
      ELSE LET p == Min(starts)
           IN  Some(Trim(SubSeq(trimmed, p + n, IndexOfChar(trimmed, "]", p + n) - 1)))

\* the test that makes a line of a module block its description
IsDescriptionLine(trimmed) ==
  /\ ~StartsWith(trimmed, Str_heading)
  /\ ~Includes(trimmed, Str_componentTag)
  /\ ~Includes(trimmed, Str_dashes)
  /\ ~Includes(trimmed, <<"|">>)
  /\ ~Includes(trimmed, <<"{">>)
  /\ ~Includes(trimmed, <<"}">>)
  /\ ~Includes(trimmed, Str_class)
  /\ Len(trimmed) > 0

ParserStart ==
  [ insideContainerExpanded |-> FALSE,
    currentModule |-> Undefined,
    inModuleBlock |-> FALSE,
    braceDepth |-> 0,
    metadataMap |-> <<>> ]

\* a slip: the container is left as soon as the depth is not positive
TrackBraces_LeaveAtOrBelowZero(st, trimmed) ==
  IF ~st.insideContainerExpanded THEN st
  ELSE LET opened == IF trimmed = <<"{">> THEN st.braceDepth + 1 ELSE st.braceDepth
       IN  IF trimmed = <<"}">>
           THEN IF opened - 1 <= 0
                THEN [st EXCEPT !.braceDepth = 0,
                                !.insideContainerExpanded = FALSE,
                                !.inModuleBlock = FALSE,
                                !.currentModule = Undefined]
                ELSE [st EXCEPT !.braceDepth = opened - 1]
           ELSE [st EXCEPT !.braceDepth = opened]

\* the brace tracking of one line read inside the container
TrackBraces(st, trimmed) ==
  IF ~st.insideContainerExpanded THEN st
  ELSE LET opened == IF trimmed = <<"{">> THEN st.braceDepth + 1 ELSE st.braceDepth
       IN  IF trimmed = <<"}">>
           THEN IF opened - 1 = 0
                THEN [st EXCEPT !.braceDepth = 0,
                                !.insideContainerExpanded = FALSE,
                                !.inModuleBlock = FALSE,
                                !.currentModule = Undefined]
                ELSE [st EXCEPT !.braceDepth = opened - 1]
           ELSE [st EXCEPT !.braceDepth = opened]

\* '### name' inside a module block
OnHeading(st, trimmed) ==
  IF StartsWith(trimmed, Str_heading)
  THEN LET moduleName == HeadingName(trimmed)
       IN  [st EXCEPT !.metadataMap =
                        IF moduleName \in DOMAIN st.metadataMap THEN @
                        ELSE MapSet(@, moduleName, EmptyMetadata),
                      !.currentModule = Some(moduleName)]
  ELSE st

\* '**[Component: technology]**' inside a module block
OnTechnology(st, trimmed) ==
  LET match == TechnologyMatch(trimmed)
  IN  IF Includes(trimmed, Str_componentTag) /\ match # Undefined /\ Truthy(st.currentModule)
      THEN [st EXCEPT !.metadataMap =
                        MapSet(@, st.currentModule[1],
                               [GetOrEmpty(@, st.currentModule[1])
                                  EXCEPT !.technology = match])]
      ELSE st

\* the first line of a module block that is no formatting is its description
OnDescription(st, trimmed) ==
  IF /\ Truthy(st.currentModule)
     /\ IsDescriptionLine(trimmed)
     /\ ~Truthy(GetOrEmpty(st.metadataMap, st.currentModule[1]).description)
  THEN [st EXCEPT !.metadataMap =
                    MapSet(@, st.currentModule[1],
                           [GetOrEmpty(@, st.currentModule[1])
                              EXCEPT !.description = Some(trimmed)])]
  ELSE st

\* '| {' ends the module block
OnBlockEnd(st, trimmed) ==
  IF trimmed = Str_blockOpen THEN [st EXCEPT !.inModuleBlock = FALSE] ELSE st

\* one iteration of the loop over the lines
ParseLine(st, line, container) ==
  LET trimmed == Trim(line)
  IN  IF StartsWith(trimmed, container \o <<":">>) /\ Includes(trimmed, Str_md)
      THEN [st EXCEPT !.insideContainerExpanded = TRUE, !.braceDepth = 0]
      ELSE LET tracked == TrackBraces(st, trimmed)
               block   == ModuleBlockMatch(trimmed, container)
           IN  IF ~tracked.insideContainerExpanded THEN tracked
               ELSE IF /\ Includes(trimmed, Str_colonMd)
                       /\ StartsWith(trimmed, container \o <<".">>)
                       /\ block # Undefined
                    THEN [tracked EXCEPT !.currentModule = block, !.inModuleBlock = TRUE]
                    ELSE IF tracked.inModuleBlock /\ Truthy(tracked.currentModule)
                         THEN OnBlockEnd(
                                OnDescription(
                                  OnTechnology(OnHeading(tracked, trimmed), trimmed),
                                  trimmed),
                                trimmed)
                         ELSE tracked

\* the loop over the lines; the state after a line is computed before the
\* next line is read
RECURSIVE ParseLines(_, _, _)
ParseLines(st, lines, container) ==
  IF lines = <<>> THEN st
  ELSE LET next == ParseLine(st, Head(lines), container)
       IN  IF next.insideContainerExpanded \in BOOLEAN
           THEN ParseLines(next, Tail(lines), container)
           ELSE next

\* a path that exists and that readFileSync fails on with the error code (a
\* directory, a file without read permission, a file removed after existsSync)
ReadError(code) == <<"Error", code>>

\* readFileSync(filePath, 'utf-8') and split: the lines, or the error thrown
readFileSync(file) ==
  IF Len(file) = 2
  THEN [threw |-> TRUE, error |-> file[2], lines |-> <<>>]
  ELSE [threw |-> FALSE, error |-> "", lines |-> file[1]]

\* a slip: the body is not wrapped in try and catch, the error of the read
\* leaves the function
parseExistingD2File_Outcome_NoCatch(file, containerName) ==
  IF file = Undefined THEN [threw |-> FALSE, metadataMap |-> ParserStart.metadataMap]
  ELSE LET read == readFileSync(file)
       IN  IF read.threw
           THEN [threw |-> TRUE, metadataMap |-> ParserStart.metadataMap]
           ELSE [ threw |-> FALSE,
                  metadataMap |-> ParseLines(ParserStart, read.lines,
                                             sanitizedContainer(containerName)).metadataMap ]

\* how a call of parseExistingD2File ends: whether an error left it, and the
\* mapping it returned. file is Undefined when the path does not exist,
\* ReadError(code) when it cannot be read, else <<the lines of the file>>. The
\* statements after the read work on strings and on the Map and do not
\* throw; the catch block warns and falls through to return metadataMap,
\* which is as it was when the error was thrown.
parseExistingD2File_Outcome(file, containerName) ==
  IF file = Undefined THEN [threw |-> FALSE, metadataMap |-> ParserStart.metadataMap]
  ELSE LET read == readFileSync(file)
       IN  IF read.threw
           THEN [threw |-> FALSE, metadataMap |-> ParserStart.metadataMap]
           ELSE [ threw |-> FALSE,
                  metadataMap |-> ParseLines(ParserStart, read.lines,
                                             sanitizedContainer(containerName)).metadataMap ]

parseExistingD2File(file, containerName) ==
  parseExistingD2File_Outcome(file, containerName).metadataMap

(***************************************************************************)
(* Enrichment: enrichModuleWithMetadata                                    *)
(***************************************************************************)
\* existingMetadata?.technology and existingMetadata?.description, where
\* existingMetadata is Undefined or <<a metadata record>>
FieldOf(existingMetadata, field) ==
  IF existingMetadata = Undefined THEN Undefined ELSE existingMetadata[1][field]

\* a slip: the default technology is preferred to the recovered one
existingTech_DefaultFirst(defaultTechnology, existingMetadata) ==
  OrElse(OrElse(Some(defaultTechnology), FieldOf(existingMetadata, "technology")),
         Some(Str_NestJS))

\* the initial value of the technology prompt
existingTech(defaultTechnology, existingMetadata) ==
  OrElse(OrElse(FieldOf(existingMetadata, "technology"), Some(defaultTechnology)),
         Some(Str_NestJS))

\* the initial value of the description prompt
existingDesc(existingMetadata) ==
  OrElse(FieldOf(existingMetadata, "description"), Some(<<>>))

\* a slip: the recovered value is preferred to the answer
enrichModuleWithMetadata_ExistingFirst(module, defaultTechnology, existingMetadata, answers) ==
  [module EXCEPT
     !.technology = OrElse(existingTech(defaultTechnology, existingMetadata),
                           answers.technology),
     !.description = OrElse(OrElse(existingDesc(existingMetadata), answers.description),
                            Some(<<>>))]

\* answers is what prompts(questions) resolved to: a field is Undefined when
\* its prompt was cancelled
enrichModuleWithMetadata(module, defaultTechnology, existingMetadata, answers) ==
  [module EXCEPT
     !.technology = OrElse(answers.technology,
                           existingTech(defaultTechnology, existingMetadata)),
     !.description = OrElse(OrElse(answers.description, existingDesc(existingMetadata)),
                            Some(<<>>))]

(***************************************************************************)
(* Constructor dependencies: ClassAnalyzer.extractDependencies, and the    *)
(* lines the class diagram renders from them                               *)
(***************************************************************************)
\* A parameter is [name, typeNode, type, inject, hasQuestionToken, optional]:
\* typeNode is Undefined or <<the text of the annotation>>, type the text of
\* the resolved type, inject Undefined or <<the argument texts of @Inject>>.
ParameterTypeText(param) ==
  IF param.typeNode # Undefined THEN param.typeNode[1] ELSE param.type

\* a slip: the quotes of the token are kept
InjectToken_Quoted(param) ==
  IF param.inject # Undefined /\ Len(param.inject[1]) > 0
  THEN Some(param.inject[1][1])
  ELSE Undefined

\* args[0].getText().replace(/['"]/g, '') when @Inject has an argument
InjectToken(param) ==
  IF param.inject # Undefined /\ Len(param.inject[1]) > 0
  THEN Some(RemoveChars(param.inject[1][1], {"'", "\""}))
  ELSE Undefined

DependencyOf(param) ==
  [ name |-> param.name,
    type |-> extractTypeName(ParameterTypeText(param)),
    isOptional |-> param.hasQuestionToken \/ param.optional,
    token |-> InjectToken(param) ]

\* if (this.isPrimitiveOrCommon(typeName)) continue;
KeepsParameter(param) == ~isPrimitiveOrCommon(extractTypeName(ParameterTypeText(param)))

\* constructors are the constructor declarations of the class, each the
\* sequence of its parameters; only the first one is read
extractDependencies(constructors) ==
  IF Len(constructors) = 0 THEN <<>>
  ELSE LET kept == SelectSeq(constructors[1], KeepsParameter)
       IN  [i \in 1..Len(kept) |-> DependencyOf(kept[i])]

Str_dependenciesComment == <<" "," ","#"," ","D","e","p","e","n","d","e","n","c","i","e","s">>

Str_injectOpen == <<" ","(","@","I","n","j","e","c","t","(","'">>

Str_injectClose == <<"'",")",")">>

Str_dependsOn == <<":"," ","d","e","p","e","n","d","s"," ","o","n">>

Str_dashed == <<" ","{","s","t","y","l","e",".","s","t","r","o","k","e","-","d","a","s","h",":"," ","3","}">>

\* the '# Dependencies' lines of addClassNode
DependencyLines(classInfo, indent) ==
  IF Len(classInfo.dependencies) > 0
  THEN <<indent \o Str_dependenciesComment>>
       \o [i \in 1..Len(classInfo.dependencies) |->
             LET dep == classInfo.dependencies[i]
             IN  indent \o <<" ", " ">> \o dep.name
                 \o (IF dep.isOptional THEN <<"?">> ELSE <<>>)
                 \o <<":", " ">> \o dep.type
                 \o (IF Truthy(dep.token)
                     THEN Str_injectOpen \o dep.token[1] \o Str_injectClose
                     ELSE <<>>)]
  ELSE <<>>

\* sanitize(module).sanitize(class) for a class with a moduleContext
\* a slip: the path of a class never names the container of its module
FullPath_NoContainer(classInfo) == sanitizeName(classInfo.name)

FullPath(classInfo) ==
  IF Truthy(classInfo.moduleContext)
  THEN sanitizeName(classInfo.moduleContext[1]) \o <<".">> \o sanitizeName(classInfo.name)
  ELSE sanitizeName(classInfo.name)

DependsOnEdge(sourceFullPath, targetFullPath, isOptional) ==
  sourceFullPath \o Str_arrow \o targetFullPath \o Str_dependsOn
  \o (IF isOptional THEN Str_dashed ELSE <<>>)

\* classes.find(c => c.name === dep.type): its index, 0 when there is none
FindClass(classes, typeName) ==
  LET hits == {k \in 1..Len(classes) : classes[k].name = typeName}
  IN  IF hits = {} THEN 0 ELSE Min(hits)

\* a slip: the target is never prefixed with the container of its module
GlobalEdgesOf_NoContainer(classInfo, classes) ==
  LET resolved == SelectSeq(classInfo.dependencies,
                            LAMBDA dep : FindClass(classes, dep.type) # 0)
  IN  [i \in 1..Len(resolved) |->
         DependsOnEdge(FullPath(classInfo), sanitizeName(resolved[i].type),
                       resolved[i].isOptional)]

\* the edges generateGlobal renders for one class
GlobalEdgesOf(classInfo, classes) ==
  LET resolved == SelectSeq(classInfo.dependencies,
                            LAMBDA dep : FindClass(classes, dep.type) # 0)
  IN  [i \in 1..Len(resolved) |->
         LET depClass == classes[FindClass(classes, resolved[i].type)]
             target   == IF Truthy(depClass.moduleContext)
                         THEN sanitizeName(depClass.moduleContext[1]) \o <<".">>
                              \o sanitizeName(resolved[i].type)
                         ELSE sanitizeName(resolved[i].type)
         IN  DependsOnEdge(FullPath(classInfo), target, resolved[i].isOptional)]

RECURSIVE GlobalEdges(_, _)
GlobalEdges(rest, classes) ==
  IF rest = <<>> THEN <<>>
  ELSE GlobalEdgesOf(Head(rest), classes) \o GlobalEdges(Tail(rest), classes)

(***************************************************************************)
(* Calls of the pure functions: the argument is drawn from a bounded set   *)
(* of texts, the call returns, and a normalizer is applied once more to    *)
(* its own result.                                                         *)
(***************************************************************************)
MaxNameLen == 3

MaxTypeLen == 4

Texts(alphabet, n) == UNION {[1..k -> alphabet] : k \in 0..n}

\* names as they reach sanitizeName: class names, and the container title
\* typed at the prompt with its spaces removed (empty when Enter is pressed)
NameAlphabet == {"a", "Z", "7", "_", "$", "-"}

NameTexts == Texts(NameAlphabet, MaxNameLen)

\* type texts as typeNode.getText() gives them
TypeAlphabet == {"A", "[", "]", "<", ">", "|", "/", " "}

TypeTexts ==
  Texts(TypeAlphabet, MaxTypeLen) \cup
  { Str_string, Str_String, Str_undefined \o <<" ","|"," ","A">>,
    <<"A"," ","|"," ">> \o Str_null, Str_null \o <<"|">> \o Str_undefined,
    Str_import \o <<"\"","/","x","\"",")",".","A">>,
    Str_import \o <<"'","x","'",")",".","A","<","B",">","[","]">> }

MaxMetaLen == 2

MaxImports == 2

\* technology and description texts as they are typed at the prompts
MetaAlphabet == {"x", " ", "]", "|"}

MetaTexts == Texts(MetaAlphabet, MaxMetaLen)

\* container titles: '' (Enter at the prompt), 'T' and 'M y'
Titles == {<<>>, <<"T">>, <<"M", " ", "y">>}

ModuleInfo(name, imports, providers, controllers, technology, description) ==
  [ name |-> name, imports |-> imports, providers |-> providers,
    controllers |-> controllers, exports |-> <<>>,
    guards |-> <<>>, interceptors |-> <<>>, pipes |-> <<>>, filters |-> <<>>,
    technology |-> technology, description |-> description ]

\* one module rendered with the metadata an interactive run gave it
EnrichedModuleLists ==
  { <<ModuleInfo(name, <<>>, <<>>, <<>>, Some(technology), Some(description))>> :
      name \in {<<"A">>, <<"B", "$">>}, technology \in MetaTexts, description \in MetaTexts }

\* the modules A and B of an interactive run in which braces were typed as
\* descriptions
BraceModuleLists ==
  { << ModuleInfo(<<"A">>, <<<<"B">>>>, <<<<"S">>>>, <<>>, Some(<<"x">>), Some(a)),
       ModuleInfo(<<"B">>, <<>>, <<<<"S">>>>, <<<<"C">>>>, Some(<<"x">>), Some(b)) >> :
      a \in {<<"{">>, <<"}">>, <<"d">>}, b \in {<<"{">>, <<"}">>, <<>>} }

\* the elements of an imports array: B, B.forRoot(), Z, forwardRef(() => B), ...mods
ImportElements ==
  { [kind |-> "Identifier", expr |-> <<"B">>, text |-> <<"B">>],
    [kind |-> "CallOnPropertyAccess", expr |-> <<"B">>,
     text |-> <<"B", ".", "f", "(", ")">>],
    [kind |-> "Identifier", expr |-> <<"Z">>, text |-> <<"Z">>],
    [kind |-> "Call", expr |-> <<"f">>,
     text |-> <<"f", "(", "(", ")", "=", ">", "B", ")">>],
    [kind |-> "PropertyAccess", expr |-> <<"B">>, text |-> <<"B", ".", "X">>],
    [kind |-> "Spread", expr |-> <<"m">>, text |-> <<".", ".", ".", "m">>] }

\* the modules ModuleAnalyzer.analyze returns for AppModule 'A', whose imports
\* array is drawn, and UserModule 'B' with a provider and a controller
AnalyzedModuleLists ==
  { << ModuleInfo(<<"A">>, extractArrayPropertyValues(elements), <<>>, <<>>,
                  Undefined, Undefined),
       ModuleInfo(<<"B">>, back, <<<<"S">>>>, <<<<"C">>>>, Undefined, Undefined) >> :
      elements \in UNION {[1..k -> ImportElements] : k \in 0..MaxImports},
      back \in {<<>>, <<<<"A">>>>} }

\* the metadata parseExistingD2File recovered for a module, if any
ExistingMetadataValues ==
  {Undefined} \cup
  { Some([technology |-> t, description |-> d]) :
      t \in {Undefined, Some(<<"x">>), Some(<<>>)}, d \in {Undefined, Some(<<"x", " ", "x">>)} }

AnswerValues == {Undefined, Some(<<>>), Some(<<"y">>)}

MaxParams == 2

\* annotations of constructor parameters: string, String, Any, A, B, string[],
\* 'undefined | string' and 'A | undefined'
AnnotationTexts ==
  { Str_string, Str_String, <<"A", "n", "y">>, <<"A">>, <<"B">>, Str_string \o <<"[", "]">>,
    Str_undefined \o <<" ", "|", " ">> \o Str_string,
    <<"A", " ", "|", " ">> \o Str_undefined }

\* the decorators and the optionality marker of a parameter: none,
\* @Inject('K') with '?', @Inject() with @Optional()
ParameterMarks ==
  { [inject |-> Undefined, hasQuestionToken |-> FALSE, optional |-> FALSE],
    [inject |-> Some(<<<<"'", "K", "'">>>>), hasQuestionToken |-> TRUE, optional |-> FALSE],
    [inject |-> Some(<<>>), hasQuestionToken |-> FALSE, optional |-> TRUE] }

Parameter(name, typeNode, type, marks) ==
  [ name |-> name, typeNode |-> typeNode, type |-> type, inject |-> marks.inject,
    hasQuestionToken |-> marks.hasQuestionToken, optional |-> marks.optional ]

\* a parameter, annotated or with an inferred type
BaseParameters ==
  { Parameter(<<"p">>, Some(t), <<"A">>, m) : t \in AnnotationTexts, m \in ParameterMarks }
  \cup
  { Parameter(<<"p">>, Undefined, t, m) : t \in {Str_boolean, <<"A">>}, m \in ParameterMarks }

DigitSeq == <<"1", "2", "3", "4", "5", "6", "7", "8", "9">>

\* the parameter lists of a constructor: p1, p2, ...
ParameterLists ==
  { [i \in 1..Len(f) |-> [f[i] EXCEPT !.name = @ \o <<DigitSeq[i]>>]] :
      f \in UNION {[1..n -> BaseParameters] : n \in 0..MaxParams} }

ClassInfo(name, dependencies, moduleContext) ==
  [name |-> name, dependencies |-> dependencies, moduleContext |-> moduleContext]

\* the other classes of the project: String (in module M), A, B (in module
\* N-1) and Any
OtherClasses ==
  << ClassInfo(Str_String, <<>>, Some(<<"M">>)),
     ClassInfo(<<"A">>, <<>>, Undefined),
     ClassInfo(<<"B">>, <<>>, Some(<<"N", "-", "1">>)),
     ClassInfo(<<"A", "n", "y">>, <<>>, Undefined) >>

\* no command runs while the functions are called
CliIdle ==
  /\ project = <<>> /\ artifact = Undefined /\ cmdModules = <<>> /\ cmdContainerTitle = <<>>
  /\ isInteractive = FALSE /\ cmdDefaultTechnology = <<>> /\ existingMetadataMap = <<>>
  /\ enrichedModules = <<>> /\ runs = 0 /\ previousArtifact = Undefined
  /\ answered = <<>>
  /\ tsconfig = TRUE /\ classArtifacts = Undefined /\ extracted = {}

\* what stands at the path of the component diagram: nothing; something that
\* cannot be read; a diagram written before for the container T
ExistingD2Files ==
  {Undefined, ReadError("EISDIR"), ReadError("EACCES"), ReadError("ENOENT")}
  \cup {Some(generate(<<"T">>, ms, FALSE)) : ms \in EnrichedModuleLists}

FnInit ==
  /\ CliIdle
  /\ pc = "call"
  /\ out = <<>>
  /\ \/ fn = "sanitizeName" /\ inp \in NameTexts
     \/ fn = "extractTypeName" /\ inp \in TypeTexts
     \/ /\ fn = "generate"
        /\ \/ inp \in [containerTitle : Titles, modules : EnrichedModuleLists,
                       showNesting : {FALSE}]
           \/ inp \in [containerTitle : {<<"T">>}, modules : AnalyzedModuleLists,
                       showNesting : BOOLEAN]
           \/ inp \in [containerTitle : {<<"T">>}, modules : BraceModuleLists,
                       showNesting : BOOLEAN]
     \/ /\ fn = "enrichModuleWithMetadata"
        /\ inp \in [ module : {ModuleInfo(<<"A">>, <<<<"B">>>>, <<<<"S">>>>, <<>>,
                                          Undefined, Undefined)},
                     defaultTechnology : {<<>>, <<"d">>},
                     existingMetadata : ExistingMetadataValues,
                     answers : [technology : AnswerValues, description : AnswerValues] ]
     \/ /\ fn = "extractDependencies"
        /\ inp \in [ constructors : {<<>>} \cup {<<params>> : params \in ParameterLists} ]
     \/ /\ fn = "parseExistingD2File"
        /\ inp \in [ file : ExistingD2Files, containerName : {<<"T">>, <<"U">>} ]

CallSanitizeName ==
  /\ pc = "call" /\ fn = "sanitizeName"
  /\ out' = sanitizeName(inp)
  /\ pc' = "return"
  /\ UNCHANGED <<fn, inp>>
  /\ UNCHANGED cliVars

\* sanitizeName applied to an identifier it produced
CallSanitizeNameAgain ==
  /\ pc = "return" /\ fn = "sanitizeName"
  /\ inp' = out
  /\ out' = sanitizeName(out)
  /\ pc' = "returnAgain"
  /\ UNCHANGED fn
  /\ UNCHANGED cliVars

CallExtractTypeName ==
  /\ pc = "call" /\ fn = "extractTypeName"
  /\ out' = extractTypeName(inp)
  /\ pc' = "return"
  /\ UNCHANGED <<fn, inp>>
  /\ UNCHANGED cliVars

\* extractTypeName applied to a type name it produced (isPrimitiveOrCommon does so)
CallExtractTypeNameAgain ==
  /\ pc = "return" /\ fn = "extractTypeName"
  /\ inp' = out
  /\ out' = extractTypeName(out)
  /\ pc' = "returnAgain"
  /\ UNCHANGED fn
  /\ UNCHANGED cliVars

CallGenerate ==
  /\ pc = "call" /\ fn = "generate"
  /\ out' = generate(inp.containerTitle, inp.modules, inp.showNesting)
  /\ pc' = "return"
  /\ UNCHANGED <<fn, inp>>
  /\ UNCHANGED cliVars

\* the rendered text is written and parseExistingD2File reads it back with
\* the same container title
CallParseGenerated ==
  /\ pc = "return" /\ fn = "generate"
  /\ out' = [file |-> out,
             metadataMap |-> parseExistingD2File(Some(out), inp.containerTitle)]
  /\ pc' = "parsed"
  /\ UNCHANGED <<fn, inp>>
  /\ UNCHANGED cliVars

CallParseExistingD2File ==
  /\ pc = "call" /\ fn = "parseExistingD2File"
  /\ out' = parseExistingD2File_Outcome(inp.file, inp.containerName)
  /\ pc' = "return"
  /\ UNCHANGED <<fn, inp>>
  /\ UNCHANGED cliVars

CallEnrichModuleWithMetadata ==
  /\ pc = "call" /\ fn = "enrichModuleWithMetadata"
  /\ out' = enrichModuleWithMetadata(inp.module, inp.defaultTechnology,
                                     inp.existingMetadata, inp.answers)
  /\ pc' = "return"
  /\ UNCHANGED <<fn, inp>>
  /\ UNCHANGED cliVars

\* extractDependencies on the class K of module M
CallExtractDependencies ==
  /\ pc = "call" /\ fn = "extractDependencies"
  /\ out' = extractDependencies(inp.constructors)
  /\ pc' = "return"
  /\ UNCHANGED <<fn, inp>>
  /\ UNCHANGED cliVars

\* the class diagram renders the attribute lines and the edges of K
CallRenderDependencies ==
  /\ pc = "return" /\ fn = "extractDependencies"
  /\ LET classInfo == ClassInfo(<<"K">>, out, Some(<<"M">>))
     IN  out' = [ dependencies |-> out,
                  lines |-> DependencyLines(classInfo, <<" ", " ">>)
                            \o GlobalEdges(<<classInfo>> \o OtherClasses,
                                           <<classInfo>> \o OtherClasses) ]
  /\ pc' = "rendered"
  /\ UNCHANGED <<fn, inp>>
  /\ UNCHANGED cliVars

FnNext ==
  \/ CallSanitizeName
  \/ CallSanitizeNameAgain
  \/ CallExtractTypeName
  \/ CallExtractTypeNameAgain
  \/ CallGenerate
  \/ CallParseGenerated
  \/ CallParseExistingD2File
  \/ CallEnrichModuleWithMetadata
  \/ CallExtractDependencies
  \/ CallRenderDependencies

SpecFn == FnInit /\ [][FnNext]_vars

(***************************************************************************)
(* Analysis: ClassAnalyzer.determineClassType, ModuleAnalyzer.analyze,     *)
(* ClassAnalyzer.analyze, and the class diagrams rendered from the result  *)
(***************************************************************************)
Str_Guard == <<"G","u","a","r","d">>

Str_Interceptor == <<"I","n","t","e","r","c","e","p","t","o","r">>

Str_PipeTransform == <<"P","i","p","e","T","r","a","n","s","f","o","r","m">>

Str_ExceptionFilter == <<"E","x","c","e","p","t","i","o","n","F","i","l","t","e","r">>

Str_NestMiddleware == <<"N","e","s","t","M","i","d","d","l","e","w","a","r","e">>

\* the tag the first keyword found in an implemented-interface name gives,
\* "" when the name holds none
ImplementsTag(implName) ==
  IF Includes(implName, Str_Guard) THEN "guard"
  ELSE IF Includes(implName, Str_Interceptor) THEN "interceptor"
  ELSE IF Includes(implName, Str_PipeTransform) THEN "pipe"
  ELSE IF Includes(implName, Str_ExceptionFilter) THEN "filter"
  ELSE ""

\* the tag a base-class name gives, "" when it gives none
ExtendsTag(extendsName) ==
  IF Includes(extendsName, Str_Guard) THEN "guard"
  ELSE IF Includes(extendsName, Str_Interceptor) THEN "interceptor"
  ELSE ""

\* the tag of a class with the Injectable decorator
InjectableTag(classDeclaration) ==
  LET impls == classDeclaration.implements
      hits  == {i \in 1..Len(impls) : ImplementsTag(impls[i]) # ""}
  IN  IF hits # {} THEN ImplementsTag(impls[Min(hits)])
      ELSE IF /\ classDeclaration.extends # Undefined
              /\ ExtendsTag(classDeclaration.extends[1]) # ""
           THEN ExtendsTag(classDeclaration.extends[1])
           ELSE "service"

\* a class declaration is [name, decorators, implements, extends, ...]:
\* decorators the set of the names of its decorators, implements the texts
\* of its implements clause, extends Undefined or <<the text of the base>>
determineClassType(classDeclaration) ==
  IF "Controller" \in classDeclaration.decorators THEN "controller"
  ELSE IF "Injectable" \in classDeclaration.decorators THEN InjectableTag(classDeclaration)
  ELSE IF "Catch" \in classDeclaration.decorators THEN "filter"
  ELSE IF \E i \in 1..Len(classDeclaration.implements) :
             Includes(classDeclaration.implements[i], Str_NestMiddleware)
       THEN "middleware"
       ELSE "other"

MaxImplements == 2

\* texts of implements clauses: AuthGuard, NestInterceptor, PipeTransform<A>,
\* ExceptionFilter, NestMiddleware, OnInit
ImplementsTexts ==
  { <<"A","u","t","h","G","u","a","r","d">>, <<"N","e","s","t","I","n","t","e","r","c","e","p","t","o","r">>, <<"P","i","p","e","T","r","a","n","s","f","o","r","m","<","A",">">>, Str_ExceptionFilter,
    Str_NestMiddleware, <<"O","n","I","n","i","t">> }

\* texts of extends clauses: AuthGuard('jwt'), BaseInterceptor,
\* BaseExceptionFilter, PipeTransform, Base
ExtendsTexts ==
  { <<"A","u","t","h","G","u","a","r","d","(","'","j","w","t","'",")">>, <<"B","a","s","e","I","n","t","e","r","c","e","p","t","o","r">>, <<"B","a","s","e","E","x","c","e","p","t","i","o","n","F","i","l","t","e","r">>, Str_PipeTransform, <<"B","a","s","e">> }

\* the decorators, implements clause and extends clause of a class
ClassHeads ==
  [ decorators : SUBSET {"Controller", "Injectable", "Catch"},
    implements : UNION {[1..n -> ImplementsTexts] : n \in 0..MaxImplements},
    extends    : {Undefined} \cup {Some(t) : t \in ExtendsTexts} ]

Str_UnknownModule == <<"U","n","k","n","o","w","n","M","o","d","u","l","e">>

\* A source file is [filePath, classes]; a class of a module file is
\* [name, moduleDecorator]: name Undefined or <<the class name>>,
\* moduleDecorator Undefined or <<the arguments of its Module decorator>>, an
\* argument being [kind, imports, providers, controllers, exports, guards,
\* interceptors, pipes, filters] with the elements of each array property.
\* The module of the first class that carries Module({...}), Undefined when
\* the file has none.
analyzeModuleFile(sourceFile) ==
  LET classes == sourceFile.classes
      hits == { i \in 1..Len(classes) :
                  /\ classes[i].moduleDecorator # Undefined
                  /\ Len(classes[i].moduleDecorator[1]) > 0
                  /\ classes[i].moduleDecorator[1][1].kind = "ObjectLiteral" }
  IN  IF hits = {} THEN Undefined
      ELSE LET classDeclaration == classes[Min(hits)]
               configObject == classDeclaration.moduleDecorator[1][1]
           IN  Some([ name |-> OrElse(classDeclaration.name, Some(Str_UnknownModule))[1],
                      filePath |-> sourceFile.filePath,
                      imports |-> extractArrayPropertyValues(configObject.imports),
                      providers |-> extractArrayPropertyValues(configObject.providers),
                      controllers |-> extractArrayPropertyValues(configObject.controllers),
                      exports |-> extractArrayPropertyValues(configObject.exports),
                      guards |-> extractArrayPropertyValues(configObject.guards),
                      interceptors |-> extractArrayPropertyValues(configObject.interceptors),
                      pipes |-> extractArrayPropertyValues(configObject.pipes),
                      filters |-> extractArrayPropertyValues(configObject.filters),
                      technology |-> Undefined,
                      description |-> Undefined ])

\* ModuleAnalyzer.analyze over the module files of the project
RECURSIVE ModuleAnalyzer_analyze(_)
ModuleAnalyzer_analyze(sourceFiles) ==
  IF sourceFiles = <<>> THEN <<>>
  ELSE LET moduleInfo == analyzeModuleFile(Head(sourceFiles))
       IN  (IF moduleInfo # Undefined THEN <<moduleInfo[1]>> ELSE <<>>)
           \o ModuleAnalyzer_analyze(Tail(sourceFiles))

\* A class of a source file is [name, decorators, implements, extends,
\* constructors, properties, methods]: a property is [name, type, isPrivate,
\* isReadonly] with type the text of its resolved type, a method is [name,
\* isPrivate, returnTypeNode, parameters] with returnTypeNode Undefined or
\* <<the text of the annotation>> and a parameter [name, typeNode].
extractProperties(classDeclaration) ==
  [i \in 1..Len(classDeclaration.properties) |->
     [ name |-> classDeclaration.properties[i].name,
       type |-> extractTypeName(classDeclaration.properties[i].type),
       isPrivate |-> classDeclaration.properties[i].isPrivate,
       isReadonly |-> classDeclaration.properties[i].isReadonly ]]

Str_PromiseOpen == <<"P","r","o","m","i","s","e","<">>

Str_constructor == <<"c","o","n","s","t","r","u","c","t","o","r">>

\* returnType.match(/^Promise<(.+)>$/): the text between 'Promise<' and the
\* final '>' when there is one
UnwrapPromise(returnType) ==
  IF /\ StartsWith(returnType, Str_PromiseOpen)
     /\ Len(returnType) >= Len(Str_PromiseOpen) + 2
     /\ returnType[Len(returnType)] = ">"
  THEN SubSeq(returnType, Len(Str_PromiseOpen) + 1, Len(returnType) - 1)
  ELSE returnType

\* replace(/\[/g, '\\[').replace(/\]/g, '\\]')
RECURSIVE EscapeBrackets(_)
EscapeBrackets(s) ==
  IF s = <<>> THEN <<>>
  ELSE (IF Head(s) \in {"[", "]"} THEN <<"\\", Head(s)>> ELSE <<Head(s)>>)
       \o EscapeBrackets(Tail(s))

MethodOf(method) ==
  [ name |-> method.name,
    returnType |-> EscapeBrackets(IF method.returnTypeNode # Undefined
                                  THEN UnwrapPromise(method.returnTypeNode[1])
                                  ELSE Str_any),
    isPrivate |-> method.isPrivate,
    parameters |-> [k \in 1..Len(method.parameters) |->
                      method.parameters[k].name \o <<":", " ">>
                      \o EscapeBrackets(IF method.parameters[k].typeNode # Undefined
                                        THEN method.parameters[k].typeNode[1]
                                        ELSE Str_any)] ]

extractMethods(classDeclaration) ==
  LET kept == SelectSeq(classDeclaration.methods, LAMBDA m : m.name # Str_constructor)
  IN  [i \in 1..Len(kept) |-> MethodOf(kept[i])]

hasInjectableDecorator(classDeclaration) == "Injectable" \in classDeclaration.decorators

\* the classes each module lists: controllers, providers, guards,
\* interceptors, pipes, filters
AllClassesOf(module) ==
  module.controllers \o module.providers \o module.guards \o module.interceptors
  \o module.pipes \o module.filters

\* classToModuleMap.get(name): the last module that lists the class
ClassToModule(modules, name) ==
  LET hits == {k \in 1..Len(modules) :
                 \E j \in 1..Len(AllClassesOf(modules[k])) : AllClassesOf(modules[k])[j] = name}
  IN  IF hits = {} THEN Undefined
      ELSE Some(modules[CHOOSE k \in hits : \A h \in hits : h <= k].name)

\* analyzeClass of a named class
analyzeClass(classDeclaration, sourceFile, modules) ==
  [ name |-> classDeclaration.name[1],
    filePath |-> sourceFile.filePath,
    dependencies |-> extractDependencies(classDeclaration.constructors),
    properties |-> extractProperties(classDeclaration),
    methods |-> extractMethods(classDeclaration),
    isInjectable |-> hasInjectableDecorator(classDeclaration),
    classType |-> determineClassType(classDeclaration),
    moduleContext |-> ClassToModule(modules, classDeclaration.name[1]) ]

analyzeSourceFile(sourceFile, modules) ==
  LET named == SelectSeq(sourceFile.classes, LAMBDA c : Truthy(c.name))
  IN  [i \in 1..Len(named) |-> analyzeClass(named[i], sourceFile, modules)]

Str_moduleTs == <<".","m","o","d","u","l","e",".","t","s">>

EndsWith(s, p) == Len(s) >= Len(p) /\ SubSeq(s, Len(s) - Len(p) + 1, Len(s)) = p

\* the classes of every source file that is not a module file
RECURSIVE ExtractedClasses(_, _)
ExtractedClasses(sourceFiles, modules) ==
  IF sourceFiles = <<>> THEN <<>>
  ELSE (IF EndsWith(Head(sourceFiles).filePath, Str_moduleTs) THEN <<>>
        ELSE analyzeSourceFile(Head(sourceFiles), modules))
       \o ExtractedClasses(Tail(sourceFiles), modules)

\* param.match(/:\s*(.+)$/): the trimmed text after the first colon
ParameterTypeMatch(param) ==
  LET colon == IndexOfChar(param, ":", 1)
  IN  IF colon = 0 \/ colon = Len(param) THEN {}
      ELSE {Trim(SubSeq(param, colon + 1, Len(param)))}

\* a slip: the types of method parameters are not collected
referencedTypes_NoParameters(classes) ==
  UNION { {classes[i].dependencies[k].type : k \in 1..Len(classes[i].dependencies)}
          \cup {classes[i].properties[k].type : k \in 1..Len(classes[i].properties)}
          \cup {classes[i].methods[k].returnType : k \in 1..Len(classes[i].methods)}
          : i \in 1..Len(classes) }

referencedTypes(classes) ==
  UNION { {classes[i].dependencies[k].type : k \in 1..Len(classes[i].dependencies)}
          \cup {classes[i].properties[k].type : k \in 1..Len(classes[i].properties)}
          \cup {classes[i].methods[k].returnType : k \in 1..Len(classes[i].methods)}
          \cup UNION { UNION { ParameterTypeMatch(classes[i].methods[k].parameters[q]) :
                                 q \in 1..Len(classes[i].methods[k].parameters) } :
                         k \in 1..Len(classes[i].methods) }
          : i \in 1..Len(classes) }

\* ClassAnalyzer.analyze(modules) over the source files of the project
ClassAnalyzer_analyze(modules, sourceFiles) ==
  LET classes == ExtractedClasses(sourceFiles, modules)
  IN  SelectSeq(classes, LAMBDA c : Truthy(c.moduleContext) \/ c.name \in referencedTypes(classes))

Identifier(text) == [kind |-> "Identifier", expr |-> text, text |-> text]

ConfigObject(imports, providers, controllers) ==
  [ kind |-> "ObjectLiteral", imports |-> imports, providers |-> providers,
    controllers |-> controllers, exports |-> <<>>, guards |-> <<>>,
    interceptors |-> <<>>, pipes |-> <<>>, filters |-> <<>> ]

\* Module(config): the argument is an identifier, not an object literal
ConfigReference == [ConfigObject(<<>>, <<>>, <<>>) EXCEPT !.kind = "Identifier"]

(***************************************************************************)
(* Class diagrams: ClassDiagramGenerator.generateGlobal and                *)
(* generateForComponent                                                    *)
(***************************************************************************)
\* addClassDefinitions
ClassDefinitionLines ==
  << <<"c","l","a","s","s","e","s",":"," ","{">>, <<" "," ","c","o","n","t","a","i","n","e","r","-","e","x","p","a","n","d","e","d",":"," ","{">>, <<" "," "," "," ","s","h","a","p","e",":"," ","r","e","c","t","a","n","g","l","e">>,
     <<" "," "," "," ","s","t","y","l","e",".","b","o","r","d","e","r","-","r","a","d","i","u","s",":"," ","3","2">>, <<" "," "," "," ","s","t","y","l","e",".","s","t","r","o","k","e","-","d","a","s","h",":"," ","3">>,
     <<" "," "," "," ","l","a","b","e","l",".","n","e","a","r",":"," ","b","o","t","t","o","m","-","l","e","f","t">>, <<" "," "," "," ","s","t","y","l","e",".","s","t","r","o","k","e",":"," ","\"","#","6","6","6","6","6","6","\"">>,
     <<" "," "," "," ","s","t","y","l","e",".","f","o","n","t","-","c","o","l","o","r",":"," ","\"","#","3","3","3","3","3","3","\"">>, <<" "," ","}">>, <<"}">> >>

Str_globalTitle == <<"#"," ","N","e","s","t","J","S"," ","C","l","a","s","s"," ","D","i","a","g","r","a","m"," ","-"," ","G","l","o","b","a","l">>

Str_componentTitle == <<"#"," ","N","e","s","t","J","S"," ","C","l","a","s","s"," ","D","i","a","g","r","a","m"," ","-"," ">>

Str_directionDown == <<"d","i","r","e","c","t","i","o","n",":"," ","d","o","w","n">>

Str_shapeClass == <<" "," ","s","h","a","p","e",":"," ","c","l","a","s","s">>

Str_styleFill == <<" "," ","s","t","y","l","e",".","f","i","l","l",":"," ","\"","#","e","3","f","2","f","d","\"">>

Str_readonly == <<"r","e","a","d","o","n","l","y"," ">>

Str_open == <<" ","{">>

\* parameters.join(', ')
RECURSIVE JoinComma(_)
JoinComma(texts) ==
  IF texts = <<>> THEN <<>>
  ELSE IF Len(texts) = 1 THEN texts[1]
  ELSE texts[1] \o <<",", " ">> \o JoinComma(Tail(texts))

AttributeLines(classInfo, indent, includeAttributes) ==
  IF includeAttributes /\ Len(classInfo.properties) > 0
  THEN LET shown == SelectSeq(classInfo.properties, LAMBDA prop : ~prop.isPrivate)
       IN  [i \in 1..Len(shown) |->
              indent \o <<" ", " ">>
              \o (IF shown[i].isReadonly THEN Str_readonly ELSE <<>>)
              \o shown[i].name \o <<":", " ">> \o shown[i].type]
  ELSE <<>>

MethodLines(classInfo, indent, includeMethods) ==
  IF includeMethods /\ Len(classInfo.methods) > 0
  THEN LET shown == SelectSeq(classInfo.methods, LAMBDA method : ~method.isPrivate)
       IN  [i \in 1..Len(shown) |->
              indent \o <<" ", " ">> \o shown[i].name \o <<"(">>
              \o JoinComma(shown[i].parameters) \o <<")", ":", " ">> \o shown[i].returnType]
  ELSE <<>>

\* the first line of the node of a class: its identifier and its name
ClassNodeOpen(classInfo, indent) ==
  indent \o sanitizeName(classInfo.name) \o <<":", " ">> \o classInfo.name \o Str_open

\* options is [includeAttributes, includeMethods]
addClassNode(classInfo, indent, options) ==
  <<ClassNodeOpen(classInfo, indent), indent \o Str_shapeClass>>
  \o (IF classInfo.isInjectable THEN <<indent \o Str_styleFill>> ELSE <<>>)
  \o AttributeLines(classInfo, indent, options.includeAttributes)
  \o DependencyLines(classInfo, indent)
  \o MethodLines(classInfo, indent, options.includeMethods)
  \o <<indent \o Str_closeBrace, <<>>>>

RECURSIVE ClassNodes(_, _, _)
ClassNodes(classes, indent, options) ==
  IF classes = <<>> THEN <<>>
  ELSE addClassNode(Head(classes), indent, options) \o ClassNodes(Tail(classes), indent, options)

\* the keys of a Map in insertion order: the distinct elements of a sequence
\* in the order of their first occurrence
RECURSIVE Distinct(_)
Distinct(seq) ==
  IF seq = <<>> THEN <<>>
  ELSE LET before == Distinct(SubSeq(seq, 1, Len(seq) - 1))
           last == seq[Len(seq)]
       IN  IF \E k \in 1..Len(before) : before[k] = last THEN before ELSE Append(before, last)

\* the container of a module with the nodes of its classes
ModuleContainer(moduleName, classes, options) ==
  <<sanitizeName(moduleName) \o <<":", " ">> \o moduleName \o Str_open,
    Str_classContainerExpanded, <<>>>>
  \o ClassNodes(classes, <<" ", " ">>, options)
  \o <<Str_closeBrace, <<>>>>

RECURSIVE ModuleContainers(_, _, _)
ModuleContainers(moduleNames, classes, options) ==
  IF moduleNames = <<>> THEN <<>>
  ELSE ModuleContainer(Head(moduleNames),
                       SelectSeq(classes, LAMBDA c : c.moduleContext = Some(Head(moduleNames))),
                       options)
       \o ModuleContainers(Tail(moduleNames), classes, options)

generateGlobal(classes, modules, options) ==
  LET grouped   == SelectSeq(classes, LAMBDA c : Truthy(c.moduleContext))
      ungrouped == SelectSeq(classes, LAMBDA c : ~Truthy(c.moduleContext))
      moduleMap == Distinct([i \in 1..Len(grouped) |-> grouped[i].moduleContext[1]])
  IN  <<Str_globalTitle, <<>>, Str_directionDown, <<>>>>
      \o ClassDefinitionLines \o <<<<>>>>
      \o ModuleContainers(moduleMap, grouped, options)
      \o ClassNodes(ungrouped, <<>>, options)
      \o GlobalEdges(classes, classes)

RECURSIVE DependencyTypes(_)
DependencyTypes(classes) ==
  IF classes = <<>> THEN <<>>
  ELSE [k \in 1..Len(Head(classes).dependencies) |-> Head(classes).dependencies[k].type]
       \o DependencyTypes(Tail(classes))

\* a slip: every class of another module or of none is taken for a dependency
DependencyClasses_All(module, moduleClasses, allClasses) ==
  SelectSeq(allClasses, LAMBDA c : c.moduleContext # Some(module.name))

\* the classes the dependencies of the module's classes resolve to, the
\* classes of the module itself left out
DependencyClasses(module, moduleClasses, allClasses) ==
  LET allDependencies == Distinct(DependencyTypes(moduleClasses))
      found == SelectSeq(allDependencies, LAMBDA depName : FindClass(allClasses, depName) # 0)
      depClasses == [i \in 1..Len(found) |-> allClasses[FindClass(allClasses, found[i])]]
  IN  SelectSeq(depClasses, LAMBDA c : c.moduleContext # Some(module.name))

\* a slip: the marker is rendered for the required dependencies
ComponentEdgesOf_Inverted(classInfo, sanitizedModuleName, renderedModules, allClasses) ==
  LET resolved == SelectSeq(classInfo.dependencies,
                            LAMBDA dep : FindClass(allClasses, dep.type) # 0)
  IN  [i \in 1..Len(resolved) |->
         LET depClass == allClasses[FindClass(allClasses, resolved[i].type)]
             target   == IF /\ Truthy(depClass.moduleContext)
                            /\ depClass.moduleContext[1] \in renderedModules
                         THEN sanitizeName(depClass.moduleContext[1]) \o <<".">>
                              \o sanitizeName(resolved[i].type)
                         ELSE sanitizeName(resolved[i].type)
         IN  DependsOnEdge(sanitizedModuleName \o <<".">> \o sanitizeName(classInfo.name),
                           target, ~resolved[i].isOptional)]

\* the edges generateForComponent renders for one class of the module
ComponentEdgesOf(classInfo, sanitizedModuleName, renderedModules, allClasses) ==
  LET resolved == SelectSeq(classInfo.dependencies,
                            LAMBDA dep : FindClass(allClasses, dep.type) # 0)
  IN  [i \in 1..Len(resolved) |->
         LET depClass == allClasses[FindClass(allClasses, resolved[i].type)]
             target   == IF /\ Truthy(depClass.moduleContext)
                            /\ depClass.moduleContext[1] \in renderedModules
                         THEN sanitizeName(depClass.moduleContext[1]) \o <<".">>
                              \o sanitizeName(resolved[i].type)
                         ELSE sanitizeName(resolved[i].type)
         IN  DependsOnEdge(sanitizedModuleName \o <<".">> \o sanitizeName(classInfo.name),
                           target, resolved[i].isOptional)]

RECURSIVE ComponentEdges(_, _, _, _)
ComponentEdges(rest, sanitizedModuleName, renderedModules, allClasses) ==
  IF rest = <<>> THEN <<>>
  ELSE ComponentEdgesOf(Head(rest), sanitizedModuleName, renderedModules, allClasses)
       \o ComponentEdges(Tail(rest), sanitizedModuleName, renderedModules, allClasses)

generateForComponent(module, allClasses, allModules, options) ==
  LET moduleClasses == SelectSeq(allClasses, LAMBDA c : c.moduleContext = Some(module.name))
      depClasses == DependencyClasses(module, moduleClasses, allClasses)
      owned == SelectSeq(depClasses, LAMBDA c : Truthy(c.moduleContext))
      localDependencies == SelectSeq(depClasses, LAMBDA c : ~Truthy(c.moduleContext))
      dependencyModules == Distinct([i \in 1..Len(owned) |-> owned[i].moduleContext[1]])
      renderedModules == {module.name}
                         \cup {dependencyModules[k] : k \in 1..Len(dependencyModules)}
  IN  <<Str_componentTitle \o module.name, <<>>, Str_directionDown, <<>>>>
      \o ClassDefinitionLines \o <<<<>>>>
      \o ModuleContainer(module.name, moduleClasses, options)
      \o ModuleContainers(dependencyModules, owned, options)
      \o ClassNodes(localDependencies, <<>>, options)
      \o ComponentEdges(moduleClasses, sanitizeName(module.name), renderedModules, allClasses)

\* generateAll: the text of class-diagram-global.d2 and, per module, the name
\* and the text of its file in class-diagrams/
generateAll(classes, modules, options) ==
  [ global |-> generateGlobal(classes, modules, options),
    components |-> [i \in 1..Len(modules) |->
                      [ file |-> sanitizeName(modules[i].name),
                        lines |-> generateForComponent(modules[i], classes, modules, options) ]] ]

ClassDeclaration(name, decorators, constructors, properties, methods) ==
  [ name |-> name, decorators |-> decorators, implements |-> <<>>, extends |-> Undefined,
    constructors |-> constructors, properties |-> properties, methods |-> methods ]

\* the module {name, controllers, providers} as ModuleAnalyzer.analyze returns it
AnalyzedModule(name, controllers, providers) ==
  [ name |-> name, filePath |-> name \o Str_moduleTs, imports |-> <<>>,
    providers |-> providers, controllers |-> controllers, exports |-> <<>>,
    guards |-> <<>>, interceptors |-> <<>>, pipes |-> <<>>, filters |-> <<>>,
    technology |-> Undefined, description |-> Undefined ]

\* no module; module M-1 with controller C and providers S, A$, A_; with it
\* module N with provider Repo; with it module M_1 with provider Repo
AnalysisModuleLists ==
  { <<>>,
    << AnalyzedModule(<<"M","-","1">>, <<<<"C">>>>, <<<<"S">>, <<"A","$">>, <<"A","_">>>>) >>,
    << AnalyzedModule(<<"M","-","1">>, <<<<"C">>>>, <<<<"S">>, <<"A","$">>, <<"A","_">>>>),
       AnalyzedModule(<<"N">>, <<>>, <<<<"R","e","p","o">>>>) >>,
    << AnalyzedModule(<<"M","-","1">>, <<<<"C">>>>, <<<<"S">>, <<"A","$">>, <<"A","_">>>>),
       AnalyzedModule(<<"M","_","1">>, <<>>, <<<<"R","e","p","o">>>>) >> }

\* what promptForClassDiagramOptions resolves to
ClassDiagramOptions ==
  { [includeAttributes |-> TRUE, includeMethods |-> TRUE],
    [includeAttributes |-> FALSE, includeMethods |-> FALSE] }

PlainParameter(name, type) ==
  Parameter(name, Some(type), type,
            [inject |-> Undefined, hasQuestionToken |-> FALSE, optional |-> FALSE])

\* the classes a project may declare in src/x.ts:
\*   @Controller() class C { constructor(s: S, @Optional() a: A$, u: string)
\*                           f(d: D, n): Promise<R> }
\*   @Injectable() class S { p: P; constructor(@Inject('K') r?: Repo) }
\*   @Injectable() class Repo {}        class D {}    class R {}    class P {}
\*   class U {}                         class Q { g(): Q[] }
\*   @Injectable() class A$ {}          @Injectable() class A_ { constructor(a: A$) }
\*   export default class {}
ClassCandidates ==
  << ClassDeclaration(Some(<<"C">>), {"Controller"},
       << << PlainParameter(<<"s">>, <<"S">>),
             Parameter(<<"a">>, Some(<<"A","$">>), <<"A","$">>,
                       [inject |-> Undefined, hasQuestionToken |-> FALSE, optional |-> TRUE]),
             PlainParameter(<<"u">>, Str_string) >> >>,
       <<>>,
       << [ name |-> <<"f">>, isPrivate |-> FALSE, returnTypeNode |-> Some(<<"P","r","o","m","i","s","e","<","R",">">>),
            parameters |-> << [name |-> <<"d">>, typeNode |-> Some(<<"D">>)],
                              [name |-> <<"n">>, typeNode |-> Undefined] >> ] >>),
     ClassDeclaration(Some(<<"S">>), {"Injectable"},
       << << Parameter(<<"r">>, Some(<<"R","e","p","o">>), <<"R","e","p","o">>,
                       [inject |-> Some(<<<<"'","K","'">>>>), hasQuestionToken |-> TRUE,
                        optional |-> FALSE]) >> >>,
       << [name |-> <<"p">>, type |-> <<"P">>, isPrivate |-> TRUE, isReadonly |-> FALSE] >>,
       <<>>),
     ClassDeclaration(Some(<<"R","e","p","o">>), {"Injectable"}, <<>>, <<>>, <<>>),
     ClassDeclaration(Some(<<"D">>), {}, <<>>, <<>>, <<>>),
     ClassDeclaration(Some(<<"R">>), {}, <<>>, <<>>, <<>>),
     ClassDeclaration(Some(<<"P">>), {}, <<>>, <<>>, <<>>),
     ClassDeclaration(Some(<<"U">>), {}, <<>>, <<>>, <<>>),
     ClassDeclaration(Some(<<"Q">>), {}, <<>>, <<>>,
       << [ name |-> <<"g">>, isPrivate |-> FALSE, returnTypeNode |-> Some(<<"Q","[","]">>),
            parameters |-> <<>> ] >>),
     ClassDeclaration(Some(<<"A","$">>), {"Injectable"}, <<>>, <<>>, <<>>),
     ClassDeclaration(Some(<<"A","_">>), {"Injectable"},
       << << PlainParameter(<<"a">>, <<"A","$">>) >> >>, <<>>, <<>>),
     ClassDeclaration(Undefined, {}, <<>>, <<>>, <<>>) >>

\* the elements of seq at the indexes in idx, in the order of seq
RECURSIVE Pick(_, _)
Pick(seq, idx) ==
  IF seq = <<>> THEN <<>>
  ELSE (IF Len(seq) \in idx THEN Pick(SubSeq(seq, 1, Len(seq) - 1), idx) \o <<seq[Len(seq)]>>
        ELSE Pick(SubSeq(seq, 1, Len(seq) - 1), idx))

\* the source files of a project: src/x.ts with some of the classes, and a
\* module file with a class H
SourceFileLists ==
  { << [filePath |-> <<"x",".","t","s">>, classes |-> Pick(ClassCandidates, idx)],
       [filePath |-> <<"h",".","m","o","d","u","l","e",".","t","s">>,
        classes |-> <<ClassDeclaration(Some(<<"H">>), {}, <<>>, <<>>, <<>>)>>] >> :
      idx \in SUBSET (1..Len(ClassCandidates)) }

MaxModuleFiles == 2

\* the classes of a module file: class A with Module({imports: [B]}); class B
\* with Module({providers: [S]}); an unnamed class with Module({}); class A
\* with Module({}) after a class with Module() and one with Module(config);
\* a class without decorator
ModuleFileClasses ==
  { << [name |-> Some(<<"A">>),
        moduleDecorator |-> Some(<<ConfigObject(<<Identifier(<<"B">>)>>, <<>>, <<>>)>>)] >>,
    << [name |-> Some(<<"B">>),
        moduleDecorator |-> Some(<<ConfigObject(<<>>, <<Identifier(<<"S">>)>>, <<>>)>>)] >>,
    << [name |-> Undefined, moduleDecorator |-> Some(<<ConfigObject(<<>>, <<>>, <<>>)>>)] >>,
    << [name |-> Some(<<"X">>), moduleDecorator |-> Some(<<>>)],
       [name |-> Some(<<"Y">>), moduleDecorator |-> Some(<<ConfigReference>>)],
       [name |-> Some(<<"A">>), moduleDecorator |-> Some(<<ConfigObject(<<>>, <<>>, <<>>)>>)] >>,
    << [name |-> Some(<<"H">>), moduleDecorator |-> Undefined] >> }

\* the module files src/1.module.ts, src/2.module.ts of a project
ModuleFileLists ==
  { [i \in 1..Len(f) |-> [filePath |-> <<DigitSeq[i]>> \o Str_moduleTs, classes |-> f[i]]] :
      f \in UNION {[1..n -> ModuleFileClasses] : n \in 0..MaxModuleFiles} }

AnalysisInit ==
  /\ CliIdle
  /\ pc = "call"
  /\ out = <<>>
  /\ \/ fn = "determineClassType" /\ inp \in ClassHeads
     \/ fn = "ModuleAnalyzer.analyze" /\ inp \in ModuleFileLists
     \/ /\ fn = "ClassAnalyzer.analyze"
        /\ inp \in [modules : AnalysisModuleLists, sourceFiles : SourceFileLists,
                     options : ClassDiagramOptions]

CallDetermineClassType ==
  /\ pc = "call" /\ fn = "determineClassType"
  /\ out' = determineClassType(inp)
  /\ pc' = "return"
  /\ UNCHANGED <<fn, inp>>
  /\ UNCHANGED cliVars

CallModuleAnalyzerAnalyze ==
  /\ pc = "call" /\ fn = "ModuleAnalyzer.analyze"
  /\ out' = ModuleAnalyzer_analyze(inp)
  /\ pc' = "return"
  /\ UNCHANGED <<fn, inp>>
  /\ UNCHANGED cliVars

\* ClassAnalyzer.analyze: the classes it extracted are kept beside the
\* classes it returns
CallClassAnalyzerAnalyze ==
  /\ pc = "call" /\ fn = "ClassAnalyzer.analyze"
  /\ out' = [ classes |-> ExtractedClasses(inp.sourceFiles, inp.modules),
              returned |-> ClassAnalyzer_analyze(inp.modules, inp.sourceFiles) ]
  /\ pc' = "return"
  /\ UNCHANGED <<fn, inp>>
  /\ UNCHANGED cliVars

\* the diagrams are rendered from what the analyzers returned: the class
\* diagrams with attributes and methods, the component diagram with nesting
CallGenerateAll ==
  /\ pc = "return" /\ fn = "ClassAnalyzer.analyze"
  /\ out' = [ classes |-> out.returned,
              diagrams |-> generateAll(out.returned, inp.modules, inp.options),
              componentDiagram |-> generate(<<"T">>, inp.modules, TRUE) ]
  /\ pc' = "rendered"
  /\ UNCHANGED <<fn, inp>>
  /\ UNCHANGED cliVars

AnalysisNext ==
  \/ CallDetermineClassType
  \/ CallModuleAnalyzerAnalyze
  \/ CallClassAnalyzerAnalyze
  \/ CallGenerateAll

SpecAnalysis == AnalysisInit /\ [][AnalysisNext]_vars

(***************************************************************************)
(* The loop of parseExistingD2File, line by line: the file is read with    *)
(* the container title T, and the next line of the file is the input of    *)
(* each step.                                                              *)
(***************************************************************************)
MaxLines == 6

\* the lines a file may hold
LineTexts ==
  { <<"T",":"," ","|","m","d">>, <<"{">>, <<" "," ","}">>, <<"|"," ","{">>, <<"U",":"," ","|","m","d">>,
    <<"T",".","A",":"," ","|","m","d">>, <<"T",".","B",":"," ","|","m","d">>, <<" "," ","#","#","#"," ","A">>,
    <<" "," ","*","*","[","C","o","m","p","o","n","e","n","t",":"," ","x","]","*","*">>, <<" "," ","u","s","e","s"," ","[","C","o","m","p","o","n","e","n","t",":"," ","y","]">>, <<" "," ","d">>, <<" "," ","c","l","a","s","s",":"," ","[","c","o","m","p","o","n","e","n","t","]">> }

ParserInit ==
  /\ CliIdle
  /\ fn = "parseExistingD2File" /\ pc = "line"
  /\ inp = [containerName |-> <<"T">>, line |-> <<>>, read |-> 0]
  /\ out = ParserStart

\* one iteration of the loop: the next line is read
ReadLine ==
  /\ fn = "parseExistingD2File" /\ pc = "line"
  /\ inp.read < MaxLines
  /\ \E line \in LineTexts :
       /\ inp' = [inp EXCEPT !.line = line, !.read = @ + 1]
       /\ out' = ParseLine(out, line, sanitizedContainer(inp.containerName))
  /\ UNCHANGED <<pc, fn>>
  /\ UNCHANGED cliVars

\* the end of the file: metadataMap is returned
EndOfFile ==
  /\ fn = "parseExistingD2File" /\ pc = "line"
  /\ pc' = "returned"
  /\ UNCHANGED <<fn, inp, out>>
  /\ UNCHANGED cliVars

ParserNext ==
  \/ ReadLine
  \/ EndOfFile

SpecParser == ParserInit /\ [][ParserNext]_vars

(***************************************************************************)
(* The class diagrams of projects in which a class name is declared twice  *)
(* and a class is listed by several modules.                               *)
(***************************************************************************)
\* src/x.ts declares some of
\*   @Controller() class C { constructor(s: S, @Optional() a: A$, u: string) ... }
\*   @Injectable() class S { private p: P; constructor(@Inject('K') r?: Repo) }
\*   @Injectable() class Repo {}        class P {}
\* and src/y.ts some of
\*   @Injectable() class S { constructor(c: C, q: P) }
\*   @Injectable() class Repo { constructor(s: S) }       class P {}
DuplicateSourceFileLists ==
  { << [filePath |-> <<"x", ".", "t", "s">>, classes |-> Pick(ClassCandidates, first)],
       [filePath |-> <<"y", ".", "t", "s">>,
        classes |-> Pick(<< ClassDeclaration(Some(<<"S">>), {"Injectable"},
                              << << PlainParameter(<<"c">>, <<"C">>),
                                    PlainParameter(<<"q">>, <<"P">>) >> >>, <<>>, <<>>),
                            ClassDeclaration(Some(<<"R","e","p","o">>), {"Injectable"},
                              << << PlainParameter(<<"s">>, <<"S">>) >> >>, <<>>, <<>>),
                            ClassDeclaration(Some(<<"P">>), {}, <<>>, <<>>, <<>>) >>,
                         second)] >> :
      first \in SUBSET {1, 2, 3, 6}, second \in SUBSET {1, 2, 3} }

\* M-1 lists C and S and N lists Repo and S; M-1 lists C and Repo and a second
\* module named M-1 lists S; M-1 lists C, N lists S and M_1 lists Repo
SharingModuleLists ==
  { << AnalyzedModule(<<"M","-","1">>, <<<<"C">>>>, <<<<"S">>>>),
       AnalyzedModule(<<"N">>, <<>>, <<<<"R","e","p","o">>, <<"S">>>>) >>,
    << AnalyzedModule(<<"M","-","1">>, <<<<"C">>>>, <<<<"R","e","p","o">>>>),
       AnalyzedModule(<<"M","-","1">>, <<>>, <<<<"S">>>>) >>,
    << AnalyzedModule(<<"M","-","1">>, <<<<"C">>>>, <<>>),
       AnalyzedModule(<<"N">>, <<>>, <<<<"S">>>>),
       AnalyzedModule(<<"M","_","1">>, <<>>, <<<<"R","e","p","o">>>>) >> }

DiagramsInit ==
  /\ CliIdle
  /\ pc = "call"
  /\ out = <<>>
  /\ fn = "ClassAnalyzer.analyze"
  /\ inp \in [modules : SharingModuleLists, sourceFiles : DuplicateSourceFileLists,
              options : ClassDiagramOptions]

DiagramsNext ==
  \/ CallClassAnalyzerAnalyze
  \/ CallGenerateAll

SpecDiagrams == DiagramsInit /\ [][DiagramsNext]_vars

(***************************************************************************)
(* The generate command, run without --component-only and --class-only.    *)
(* An action is the code from one awaited prompt to the next; what the     *)
(* prompt resolved to is the action's input.                               *)
(***************************************************************************)
MaxRuns == 2

\* the modules ModuleAnalyzer.analyze finds in the project: AppModule 'A'
\* alone, or 'A' importing UserModule 'B'
ProjectModuleLists ==
  { << ModuleInfo(<<"A">>, <<>>, <<<<"S">>>>, <<>>, Undefined, Undefined) >>,
    << ModuleInfo(<<"A">>, <<<<"B">>>>, <<>>, <<>>, Undefined, Undefined),
       ModuleInfo(<<"B">>, <<>>, <<<<"S">>>>, <<<<"C">>>>, Undefined, Undefined) >> }

\* what is typed at the container title prompt
TitleAnswers == {<<"T">>, <<"M", " ", "y">>}

\* what is typed at the default technology prompt: nothing, or 'd]'
DefaultTechnologyAnswers == {<<>>, <<"d", "]">>}

\* what is done at a text prompt: it is cancelled, Enter is pressed on its
\* initial value, or 'y' is typed
Keys == { [kind |-> "cancel", text |-> <<>>],
          [kind |-> "enter",  text |-> <<>>],
          [kind |-> "text",   text |-> <<"y">>] }

\* what is done at the two prompts of a module; a cancelled prompt ends the
\* series of questions
EnrichmentKeys ==
  { k \in [technology : Keys, description : Keys] :
      k.technology.kind = "cancel" => k.description.kind = "cancel" }

\* what a prompt resolves to
Resolve(key, initial) ==
  CASE key.kind = "cancel" -> Undefined
    [] key.kind = "enter"  -> initial
    [] OTHER               -> Some(key.text)

\* existingMetadataMap.get(name)
MapGet(map, key) == IF key \in DOMAIN map THEN Some(map[key]) ELSE Undefined

\* the classes declared in the project's sources, in src/x.ts:
\*   @Injectable() class S { private p: P; constructor(@Inject('K') r?: Repo) }
\*   @Injectable() class Repo {}
ProjectSourceFiles ==
  << [filePath |-> <<"x", ".", "t", "s">>, classes |-> Pick(ClassCandidates, {2, 3})] >>

\* cli.ts 98-104: render 'mods' and write component-diagram.d2; the prompt
\* for the class diagram options is shown
WriteComponentDiagram(mods, interactive) ==
  /\ artifact' = Some(generate(cmdContainerTitle, mods, ~interactive))
  /\ cmdModules' = mods
  /\ pc' = "promptForClassDiagramOptions"

\* a slip: the command does not look for tsconfig.json
StartGenerate_NoCheck ==
  /\ pc \in {"idle", "done", "exited"} /\ fn = ""
  /\ runs < MaxRuns
  /\ \E optionInteractive \in BOOLEAN :
       /\ isInteractive' = optionInteractive
       /\ answered' = Append(answered, [containerTitle |-> <<>>,
                                        isInteractive |-> optionInteractive,
                                        defaultTechnology |-> <<>>,
                                        answers |-> <<>>, typed |-> <<>>])
  /\ runs' = runs + 1
  /\ previousArtifact' = artifact
  /\ cmdDefaultTechnology' = <<>>
  /\ cmdContainerTitle' = <<>>
  /\ existingMetadataMap' = <<>>
  /\ enrichedModules' = <<>>
  /\ cmdModules' = project
  /\ extracted' = {"ModuleAnalyzer.analyze"}
  /\ pc' = "promptForContainerTitle"
  /\ UNCHANGED <<artifact, classArtifacts, tsconfig, project, fnVars>>

\* the command starts. Without tsconfig.json in the project root it prints an
\* error and the process exits with code 1; else the modules are analyzed and
\* the title prompt is shown
StartGenerate ==
  /\ pc \in {"idle", "done", "exited"} /\ fn = ""
  /\ runs < MaxRuns
  /\ \E optionInteractive \in BOOLEAN :
       /\ isInteractive' = optionInteractive
       /\ answered' = Append(answered, [containerTitle |-> <<>>,
                                        isInteractive |-> optionInteractive,
                                        defaultTechnology |-> <<>>,
                                        answers |-> <<>>, typed |-> <<>>])
  /\ runs' = runs + 1
  /\ previousArtifact' = artifact
  /\ cmdDefaultTechnology' = <<>>
  /\ cmdContainerTitle' = <<>>
  /\ existingMetadataMap' = <<>>
  /\ enrichedModules' = <<>>
  /\ IF ~tsconfig
     THEN /\ cmdModules' = <<>>
          /\ extracted' = {}
          /\ pc' = "exited"
     ELSE /\ cmdModules' = project
          /\ extracted' = {"ModuleAnalyzer.analyze"}
          /\ pc' = "promptForContainerTitle"
  /\ UNCHANGED <<artifact, classArtifacts, tsconfig, project, fnVars>>

\* tsconfig.json is removed from the project root while no command runs
RemoveTsconfig ==
  /\ pc \in {"idle", "done"} /\ fn = ""
  /\ runs < MaxRuns
  /\ tsconfig
  /\ tsconfig' = FALSE
  /\ UNCHANGED <<pc, fnVars, project, artifact, cmdModules, cmdContainerTitle, isInteractive,
                 cmdDefaultTechnology, existingMetadataMap, enrichedModules, runs,
                 previousArtifact, answered, classArtifacts, extracted>>

\* promptForClassDiagramOptions resolves; the classes are analyzed and the
\* class diagrams are written
AnswerClassDiagramOptions ==
  /\ pc = "promptForClassDiagramOptions"
  /\ \E options \in ClassDiagramOptions :
       classArtifacts' = Some(generateAll(ClassAnalyzer_analyze(cmdModules, ProjectSourceFiles),
                                          cmdModules, options))
  /\ extracted' = extracted \cup {"ClassAnalyzer.analyze"}
  /\ pc' = "done"
  /\ UNCHANGED <<fnVars, project, artifact, cmdModules, cmdContainerTitle, isInteractive,
                 cmdDefaultTechnology, existingMetadataMap, enrichedModules, runs,
                 previousArtifact, answered, tsconfig>>

\* promptForContainerTitle resolves
AnswerContainerTitle ==
  /\ pc = "promptForContainerTitle"
  /\ \E title \in TitleAnswers :
       /\ cmdContainerTitle' = title
       /\ answered' = [answered EXCEPT ![runs].containerTitle = title]
  /\ pc' = IF isInteractive THEN "promptForDefaultTechnology" ELSE "promptForInteractiveMode"
  /\ UNCHANGED <<artifact, cmdModules, isInteractive, cmdDefaultTechnology, existingMetadataMap,
                 enrichedModules, runs, previousArtifact, project, fnVars,
                 tsconfig, classArtifacts, extracted>>

\* promptForInteractiveMode resolves; on 'no' the diagram is written at once
AnswerInteractiveMode ==
  /\ pc = "promptForInteractiveMode"
  /\ \E interactive \in BOOLEAN :
       /\ isInteractive' = interactive
       /\ answered' = [answered EXCEPT ![runs].isInteractive = interactive]
       /\ IF interactive
          THEN /\ pc' = "promptForDefaultTechnology"
               /\ UNCHANGED <<artifact, cmdModules>>
          ELSE WriteComponentDiagram(cmdModules, FALSE)
  /\ UNCHANGED <<cmdContainerTitle, cmdDefaultTechnology, existingMetadataMap, enrichedModules,
                 runs, previousArtifact, project, fnVars, tsconfig, classArtifacts, extracted>>

\* promptForDefaultTechnology resolves; the existing diagram is parsed and
\* the first module's prompts are shown
AnswerDefaultTechnology ==
  /\ pc = "promptForDefaultTechnology"
  /\ \E technology \in DefaultTechnologyAnswers :
       /\ cmdDefaultTechnology' = technology
       /\ answered' = [answered EXCEPT ![runs].defaultTechnology = technology]
  /\ existingMetadataMap' = parseExistingD2File(artifact, cmdContainerTitle)
  /\ enrichedModules' = <<>>
  /\ IF Len(cmdModules) = 0
     THEN WriteComponentDiagram(<<>>, TRUE)
     ELSE /\ pc' = "enrichModuleWithMetadata"
          /\ UNCHANGED <<artifact, cmdModules>>
  /\ UNCHANGED <<cmdContainerTitle, isInteractive, runs, previousArtifact, project, fnVars,
                 tsconfig, classArtifacts, extracted>>

\* a slip: the enriched module is put in front of the list
AnswerEnrichment_Prepend ==
  /\ pc = "enrichModuleWithMetadata"
  /\ \E keys \in EnrichmentKeys :
       LET module   == cmdModules[Len(enrichedModules) + 1]
           existing == MapGet(existingMetadataMap, module.name)
           answers  == [technology  |-> Resolve(keys.technology,
                                                existingTech(cmdDefaultTechnology, existing)),
                        description |-> Resolve(keys.description, existingDesc(existing))]
           enriched == enrichModuleWithMetadata(module, cmdDefaultTechnology, existing, answers)
       IN  /\ enrichedModules' = <<enriched>> \o enrichedModules
           /\ answered' = [answered EXCEPT
                             ![runs].answers = Append(@, answers),
                             ![runs].typed = Append(@, {f \in {"technology", "description"} :
                                                          keys[f].kind = "text"})]
           /\ IF Len(enrichedModules) + 1 = Len(cmdModules)
              THEN WriteComponentDiagram(<<enriched>> \o enrichedModules, isInteractive)
              ELSE /\ pc' = "enrichModuleWithMetadata"
                   /\ UNCHANGED <<artifact, cmdModules>>
  /\ UNCHANGED <<cmdContainerTitle, isInteractive, cmdDefaultTechnology, existingMetadataMap,
                 runs, previousArtifact, project, fnVars, tsconfig, classArtifacts, extracted>>

\* the prompts of the next module resolve; after the last module the diagram
\* is rendered from the enriched cmdModules and written
AnswerEnrichment ==
  /\ pc = "enrichModuleWithMetadata"
  /\ \E keys \in EnrichmentKeys :
       LET module   == cmdModules[Len(enrichedModules) + 1]
           existing == MapGet(existingMetadataMap, module.name)
           answers  == [technology  |-> Resolve(keys.technology,
                                                existingTech(cmdDefaultTechnology, existing)),
                        description |-> Resolve(keys.description, existingDesc(existing))]
           enriched == enrichModuleWithMetadata(module, cmdDefaultTechnology, existing, answers)
       IN  /\ enrichedModules' = Append(enrichedModules, enriched)
           /\ answered' = [answered EXCEPT
                             ![runs].answers = Append(@, answers),
                             ![runs].typed = Append(@, {f \in {"technology", "description"} :
                                                          keys[f].kind = "text"})]
           /\ IF Len(enrichedModules) + 1 = Len(cmdModules)
              THEN WriteComponentDiagram(Append(enrichedModules, enriched), isInteractive)
              ELSE /\ pc' = "enrichModuleWithMetadata"
                   /\ UNCHANGED <<artifact, cmdModules>>
  /\ UNCHANGED <<cmdContainerTitle, isInteractive, cmdDefaultTechnology, existingMetadataMap,
                 runs, previousArtifact, project, fnVars, tsconfig, classArtifacts, extracted>>

Init ==
  /\ pc = "idle" /\ fn = "" /\ inp = <<>> /\ out = <<>>
  /\ project \in ProjectModuleLists
  /\ artifact = Undefined
  /\ cmdModules = <<>>
  /\ cmdContainerTitle = <<>> /\ isInteractive = FALSE /\ cmdDefaultTechnology = <<>>
  /\ existingMetadataMap = <<>> /\ enrichedModules = <<>>
  /\ runs = 0 /\ previousArtifact = Undefined /\ answered = <<>>
  /\ tsconfig \in BOOLEAN /\ classArtifacts = Undefined /\ extracted = {}

Next ==
  \/ StartGenerate
  \/ RemoveTsconfig
  \/ AnswerContainerTitle
  \/ AnswerInteractiveMode
  \/ AnswerDefaultTechnology
  \/ AnswerEnrichment
  \/ AnswerClassDiagramOptions

Spec == Init /\ [][Next]_vars

(***************************************************************************)
(* Claims                                                                  *)
(***************************************************************************)
\* the regular expression ^_?[A-Za-z0-9_]+$
MatchesIdentifier(s) == Len(s) >= 1 /\ \A i \in 1..Len(s) : s[i] \in WordChars

\* C5: for every input string, the empty one included, the output of
\* sanitizeName matches ^_?[A-Za-z0-9_]+$ and does not start with a digit.
C5_SanitizeTotality ==
  (fn = "sanitizeName" /\ pc \in {"return", "returnAgain"}) =>
     (MatchesIdentifier(out) /\ ~(out # <<>> /\ out[1] \in Digits))

\* C6: sanitizeName is idempotent: applied to its own output it returns that
\* output unchanged.
C6_SanitizeIdempotent ==
  (fn = "sanitizeName" /\ pc = "returnAgain") => out = inp

\* a second application on an identifier that the first one had to rewrite
C6_Witness ==
  /\ fn = "sanitizeName" /\ pc = "returnAgain"
  /\ out = <<"_", "7", "_">>

\* C7: extractTypeName is idempotent: applied to its own output it returns
\* that output unchanged.
C7_ExtractTypeNameIdempotent ==
  (fn = "extractTypeName" /\ pc = "returnAgain") => out = inp

\* the text of an optional string: '' when it is undefined
TextOf(o) == IF o = Undefined THEN <<>> ELSE o[1]

\* C1: a module rendered with technology X and description Y is recovered
\* from the rendered text, under its own name, with exactly X and Y.
C1_RoundTrip ==
  (fn = "generate" /\ pc = "parsed") =>
     \A i \in 1..Len(inp.modules) :
        /\ inp.modules[i].name \in DOMAIN out.metadataMap
        /\ TextOf(out.metadataMap[inp.modules[i].name].technology)
             = TextOf(inp.modules[i].technology)
        /\ TextOf(out.metadataMap[inp.modules[i].name].description)
             = TextOf(inp.modules[i].description)

\* C4: a non-empty answer for technology (description) is what the returned
\* module carries, whatever was recovered and whatever the default is.
C4_AnswerWins ==
  (fn = "enrichModuleWithMetadata" /\ pc = "return") =>
     /\ Truthy(inp.answers.technology) => out.technology = inp.answers.technology
     /\ Truthy(inp.answers.description) => out.description = inp.answers.description

\* both answers given while other values were recovered and a default is set
C4_Witness ==
  /\ fn = "enrichModuleWithMetadata" /\ pc = "return"
  /\ inp.answers = [technology |-> Some(<<"y">>), description |-> Some(<<"y">>)]
  /\ inp.existingMetadata =
       Some([technology |-> Some(<<"x">>), description |-> Some(<<"x", " ", "x">>)])
  /\ inp.defaultTechnology = <<"d">>
  /\ out.technology = Some(<<"y">>) /\ out.description = Some(<<"y">>)

\* the parameters of the first constructor whose normalized type is in the
\* primitive/builtin set, compared case-insensitively
PrunedParameters ==
  IF Len(inp.constructors) = 0 THEN {}
  ELSE { inp.constructors[1][i] : i \in
           { j \in 1..Len(inp.constructors[1]) :
               ToLowerCase(extractTypeName(ParameterTypeText(inp.constructors[1][j])))
                 \in primitives } }

Range(seq) == {seq[i] : i \in 1..Len(seq)}

\* C8: a constructor parameter of a primitive/builtin type is not in the
\* dependency list, whatever its token and optional marker, and no attribute
\* line and no edge is rendered for it.
C8_PrimitivePruned ==
  /\ (fn = "extractDependencies" /\ pc = "return") =>
        \A param \in PrunedParameters : \A i \in 1..Len(out) : out[i].name # param.name
  /\ (fn = "extractDependencies" /\ pc = "rendered") =>
        \A param \in PrunedParameters :
           /\ \A i \in 1..Len(out.dependencies) : out.dependencies[i].name # param.name
           /\ \A line \in Range(out.lines) :
                /\ ~Includes(line, <<" ">> \o param.name)
                /\ \A k \in 1..Len(OtherClasses), optional \in BOOLEAN :
                     OtherClasses[k].name = extractTypeName(ParameterTypeText(param))
                       => line # DependsOnEdge(<<"M", ".", "K">>, FullPath(OtherClasses[k]),
                                               optional)

\* p1: String with @Inject('K') and '?' is pruned, p2: A is kept and rendered
C8_Witness ==
  /\ fn = "extractDependencies" /\ pc = "rendered"
  /\ Len(inp.constructors) = 1 /\ Len(inp.constructors[1]) = 2
  /\ inp.constructors[1][1].typeNode = Some(Str_String)
  /\ inp.constructors[1][1].inject # Undefined
  /\ inp.constructors[1][1].hasQuestionToken
  /\ inp.constructors[1][2].typeNode = Some(<<"A">>)
  /\ Len(out.dependencies) = 1 /\ out.dependencies[1].name = <<"p", "2">>
  /\ DependsOnEdge(<<"M", ".", "K">>, <<"A">>, FALSE) \in Range(out.lines)

\* the sanitized names of the analyzed modules
KnownIdentifiers(modules) == {sanitizeName(modules[k].name) : k \in 1..Len(modules)}

\* how many times line stands in lines
Occurrences(lines, line) == Cardinality({l \in 1..Len(lines) : lines[l] = line})

\* C9: every 'imports' edge of the component diagram runs from an analyzed
\* module to an identifier that is the sanitized name of an analyzed module;
\* an import that names no analyzed module leaves no edge.
C9_UnresolvedImportNeverRenders ==
  (fn = "generate" /\ pc = "return") =>
     LET container == containerTitleUpperCamelCase(inp.containerTitle)
     IN  /\ \A l \in 1..Len(out) :
              Includes(out[l], Str_arrow) =>
                 \E i \in 1..Len(inp.modules) :
                    \E target \in KnownIdentifiers(inp.modules) :
                       /\ out[l] = ImportEdge(container, sanitizeName(inp.modules[i].name),
                                              target)
                       /\ \E j \in 1..Len(inp.modules[i].imports) :
                             sanitizeName(inp.modules[i].imports[j]) = target
         /\ \A i \in 1..Len(inp.modules) : \A j \in 1..Len(inp.modules[i].imports) :
              sanitizeName(inp.modules[i].imports[j]) \notin KnownIdentifiers(inp.modules)
                => ImportEdge(container, sanitizeName(inp.modules[i].name),
                              sanitizeName(inp.modules[i].imports[j])) \notin Range(out)

\* A imports the undeclared Z and the analyzed B: only the edge to B is there
C9_Witness ==
  /\ fn = "generate" /\ pc = "return"
  /\ Len(inp.modules) = 2
  /\ inp.modules[1].imports = <<<<"Z">>, <<"B">>>>
  /\ ImportEdge(<<"T">>, <<"A">>, <<"B">>) \in Range(out)
  /\ Cardinality({l \in 1..Len(out) : Includes(out[l], Str_arrow)}) = 1

\* C10: each module has its node declaration, and for each pair (A, B) where
\* the import list of A names an analyzed module B there is exactly one
\* 'imports' edge from A to B.
C10_ExactlyOneEdgePerImport ==
  (fn = "generate" /\ pc = "return") =>
     LET container == containerTitleUpperCamelCase(inp.containerTitle)
     IN  /\ \A i \in 1..Len(inp.modules) :
              container \o <<".">> \o sanitizeName(inp.modules[i].name) \o Str_mdOpen
                \in Range(out)
         /\ \A i \in 1..Len(inp.modules) : \A k \in 1..Len(inp.modules) :
              (\E j \in 1..Len(inp.modules[i].imports) :
                  sanitizeName(inp.modules[i].imports[j]) = sanitizeName(inp.modules[k].name))
                => Occurrences(out, ImportEdge(container, sanitizeName(inp.modules[i].name),
                                               sanitizeName(inp.modules[k].name))) = 1

\* C2: two runs in succession with the same container title, the same default
\* technology and the same enrichment answers write the same artifact.
C2_TwoRunsSameArtifact ==
  (/\ pc = "done" /\ runs = 2
   /\ answered[1].containerTitle = answered[2].containerTitle
   /\ answered[1].isInteractive = answered[2].isInteractive
   /\ answered[1].defaultTechnology = answered[2].defaultTechnology
   /\ answered[1].answers = answered[2].answers)
  => artifact = previousArtifact

\* the lines that open the block of a module in the component diagram:
\* its identifier and its label
LabelBlock(title, module) ==
  <<containerTitleUpperCamelCase(title) \o <<".">> \o sanitizeName(module.name) \o Str_mdOpen>>
  \o LabelLines(module)
  \o <<Str_blockOpen>>

\* lines stand in the artifact one after the other
StandsIn(lines, art) ==
  \E k \in 0..(Len(art) - Len(lines)) : SubSeq(art, k + 1, k + Len(lines)) = lines

\* the technologies and descriptions an artifact of this project can hold
HeldTechnologies == {Str_NestJS, <<"y">>, <<"d">>, <<"d", "]">>}

HeldDescriptions == {<<>>, <<"y">>}

\* the artifact holds technology T and description D for module M
Holds(art, title, M, T, D) ==
  /\ art # Undefined
  /\ StandsIn(LabelBlock(title, [M EXCEPT !.technology = Some(T), !.description = Some(D)]),
              art[1])

\* C3: a run under the same container title in which nothing is typed for
\* any module leaves in the artifact every technology and description the
\* artifact held for a module before the run.
C3_PriorInputKept ==
  (/\ pc = "done" /\ runs = 2
   /\ answered[1].containerTitle = answered[2].containerTitle
   /\ \A i \in 1..Len(answered[2].typed) : answered[2].typed[i] = {})
  => \A i \in 1..Len(project) : \A T \in HeldTechnologies, D \in HeldDescriptions :
        Holds(previousArtifact, cmdContainerTitle, project[i], T, D)
          => Holds(artifact, cmdContainerTitle, project[i], T, D)

\* the parameters of the first constructor whose type is not a primitive
InjectedParameters ==
  IF Len(inp.constructors) = 0 THEN {}
  ELSE { i \in 1..Len(inp.constructors[1]) :
           ToLowerCase(extractTypeName(ParameterTypeText(inp.constructors[1][i])))
             \notin primitives }

\* the line of the class node for a parameter with the token K
TokenLine(param, K) ==
  <<" ", " ", " ", " ">> \o param.name
  \o (IF param.hasQuestionToken \/ param.optional THEN <<"?">> ELSE <<>>)
  \o <<":", " ">> \o extractTypeName(ParameterTypeText(param))
  \o Str_injectOpen \o K \o Str_injectClose

\* C11: the node of class K lists every non-primitive constructor parameter
\* that carries @Inject('K') with the token K, and the global class graph
\* holds a 'depends on' edge from K to every dependency type that names a
\* class of the collection (A at the root, B inside its module N_1).
C11_TokenListedAndEdgeRendered ==
  (fn = "extractDependencies" /\ pc = "rendered") =>
     \A i \in InjectedParameters :
        LET param  == inp.constructors[1][i]
            type   == extractTypeName(ParameterTypeText(param))
            dashed == param.hasQuestionToken \/ param.optional
        IN  /\ (param.inject # Undefined /\ Len(param.inject[1]) > 0)
                 => TokenLine(param, <<"K">>) \in Range(out.lines)
            /\ type = <<"A">>
                 => DependsOnEdge(<<"M", ".", "K">>, <<"A">>, dashed) \in Range(out.lines)
            /\ type = <<"B">>
                 => DependsOnEdge(<<"M", ".", "K">>, <<"N", "_", "1", ".", "B">>, dashed)
                      \in Range(out.lines)

\* K(p1: A, @Inject('K') p2?: B) is analyzed and rendered
C11_Witness ==
  /\ fn = "extractDependencies" /\ pc = "rendered"
  /\ Len(inp.constructors) = 1 /\ Len(inp.constructors[1]) = 2
  /\ inp.constructors[1][1].typeNode = Some(<<"A">>)
  /\ inp.constructors[1][1].inject = Undefined
  /\ inp.constructors[1][2].typeNode = Some(<<"B">>)
  /\ inp.constructors[1][2].inject # Undefined /\ Len(inp.constructors[1][2].inject[1]) > 0
  /\ Len(out.dependencies) = 2
  /\ out.dependencies[2].token = Some(<<"K">>)

\* C18: a class with the Controller decorator is tagged 'controller', and a
\* class with the Catch decorator and without the Controller decorator is
\* tagged 'filter', whether or not it carries the Injectable decorator too.
C18_DecoratorsFirst ==
  (fn = "determineClassType" /\ pc = "return") =>
     /\ "Controller" \in inp.decorators => out = "controller"
     /\ ("Catch" \in inp.decorators /\ "Controller" \notin inp.decorators) => out = "filter"

\* the names of the implements clause followed by the name of the base class
ClauseNames(classDeclaration) ==
  classDeclaration.implements
  \o (IF classDeclaration.extends = Undefined THEN <<>> ELSE <<classDeclaration.extends[1]>>)

\* C19: a class with the Injectable decorator and without the Controller and
\* Catch decorators is tagged by the keyword found in the names of its
\* implements clause and of its base class (Guard, Interceptor,
\* PipeTransform, ExceptionFilter), 'service' when none holds a keyword; a
\* class with none of the three decorators is 'middleware' when it implements
\* NestMiddleware and 'other' otherwise.
C19_TagByClauseNames ==
  (fn = "determineClassType" /\ pc = "return") =>
     LET names == ClauseNames(inp)
         hits  == {i \in 1..Len(names) : ImplementsTag(names[i]) # ""}
     IN  /\ inp.decorators = {"Injectable"} =>
              out = IF hits = {} THEN "service" ELSE ImplementsTag(names[Min(hits)])
         /\ inp.decorators = {} =>
              out = IF \E i \in 1..Len(inp.implements) :
                          Includes(inp.implements[i], Str_NestMiddleware)
                    THEN "middleware" ELSE "other"

\* C16: no two modules returned by ModuleAnalyzer.analyze have the same name.
C16_ModuleNamesUnique ==
  (fn = "ModuleAnalyzer.analyze" /\ pc = "return") =>
     \A i \in 1..Len(out) : \A j \in 1..Len(out) : i # j => out[i].name # out[j].name

\* the types a class refers to: its dependency types, its property types,
\* the return types of its methods and the types after the colon of their
\* parameters
TypesReferredBy(c) ==
  {c.dependencies[k].type : k \in 1..Len(c.dependencies)}
  \cup {c.properties[k].type : k \in 1..Len(c.properties)}
  \cup {c.methods[k].returnType : k \in 1..Len(c.methods)}
  \cup UNION { { Trim(SubSeq(c.methods[k].parameters[q],
                             IndexOfChar(c.methods[k].parameters[q], ":", 1) + 1,
                             Len(c.methods[k].parameters[q]))) :
                   q \in 1..Len(c.methods[k].parameters) } :
                 k \in 1..Len(c.methods) }

\* C14: ClassAnalyzer.analyze returns, in their order, exactly the extracted
\* classes that have a moduleContext or whose name is a type some extracted
\* class refers to; a class in no module that no class refers to is not
\* returned.
C14_RelevanceFilter ==
  (fn = "ClassAnalyzer.analyze" /\ pc = "return") =>
     LET referred == UNION {TypesReferredBy(out.classes[i]) : i \in 1..Len(out.classes)}
     IN  out.returned = SelectSeq(out.classes,
                                  LAMBDA c : Truthy(c.moduleContext) \/ c.name \in referred)

\* C, S, D, R, P, U and Q are declared and module M-1 lists C and S: all but
\* U and Q are returned
C14_Witness ==
  /\ fn = "ClassAnalyzer.analyze" /\ pc = "return"
  /\ Len(inp.modules) = 1
  /\ Len(out.classes) = 7 /\ Len(out.returned) = 5
  /\ \E i \in 1..7 : out.classes[i].name = <<"U">>
  /\ \E i \in 1..7 : out.classes[i].name = <<"Q">>
  /\ \A i \in 1..5 : out.returned[i].name \in {<<"C">>, <<"S">>, <<"D">>, <<"R">>, <<"P">>}

\* the constructor parameter of the class declared as c.name in src/x.ts that
\* the dependency dep was read from
ParameterOf(c, dep) ==
  LET decl == CHOOSE d \in Range(inp.sourceFiles[1].classes) : d.name = Some(c.name)
  IN  CHOOSE p \in Range(decl.constructors[1]) : p.name = dep.name

\* the parameter has a trailing optionality marker or an Optional marker
MarkedOptional(param) == param.hasQuestionToken \/ param.optional

\* for the dependencies of the classes in rest that name a class of known, in
\* the order of the classes and of their dependencies: is the parameter marked
RECURSIVE MarksOfResolved(_, _)
MarksOfResolved(rest, known) ==
  IF rest = <<>> THEN <<>>
  ELSE LET c == Head(rest)
           resolved == SelectSeq(c.dependencies,
                                 LAMBDA dep : \E k \in Range(known) : k.name = dep.type)
       IN  [i \in 1..Len(resolved) |-> MarkedOptional(ParameterOf(c, resolved[i]))]
           \o MarksOfResolved(Tail(rest), known)

\* the edges of a diagram, in the order of its lines
EdgeLines(lines) == SelectSeq(lines, LAMBDA l : Includes(l, Str_arrow))

\* the edges carry the marker exactly at the places of marks
DashedExactlyAt(edges, marks) ==
  /\ Len(edges) = Len(marks)
  /\ \A i \in 1..Len(edges) : EndsWith(edges[i], Str_dashed) <=> marks[i]

\* C12: the isOptional flag of every dependency of a rendered class is true
\* exactly when its constructor parameter has the question token or the
\* Optional decorator, and in the global class diagram and in the class diagram
\* of every module a dependency edge ends with the dashed-style marker
\* ' {style.stroke-dash: 3}' exactly when its dependency is optional.
C12_DashedIffOptional ==
  (fn = "ClassAnalyzer.analyze" /\ pc = "rendered") =>
     /\ \A c \in Range(out.classes) : \A dep \in Range(c.dependencies) :
          dep.isOptional <=> MarkedOptional(ParameterOf(c, dep))
     /\ DashedExactlyAt(EdgeLines(out.diagrams.global),
                        MarksOfResolved(out.classes, out.classes))
     /\ \A m \in 1..Len(inp.modules) :
          DashedExactlyAt(
            EdgeLines(out.diagrams.components[m].lines),
            MarksOfResolved(SelectSeq(out.classes,
                                      LAMBDA c : c.moduleContext = Some(inp.modules[m].name)),
                            out.classes))

\* C(s: S, @Optional() a: A$), S(r?: Repo) and A_(a: A$) of module M-1 are
\* rendered with Repo of module N: the diagram of M-1 has two dashed edges and
\* two edges that are not dashed
C12_Witness ==
  /\ fn = "ClassAnalyzer.analyze" /\ pc = "rendered"
  /\ Len(inp.modules) = 2
  /\ LET edges == EdgeLines(out.diagrams.components[1].lines)
     IN  /\ Len(edges) = 4
         /\ Cardinality({i \in 1..4 : EndsWith(edges[i], Str_dashed)}) = 2
  /\ Len(EdgeLines(out.diagrams.global)) = 4

\* the classes of the rendered collection whose name is exactly typeName
NamedExactly(typeName) == {k \in 1..Len(out.classes) : out.classes[k].name = typeName}

\* the edge of class c for its dependency dep, which resolves to the class r
EdgeTo(c, dep, r) ==
  FullPath(c) \o Str_arrow
  \o (IF Truthy(r.moduleContext)
      THEN sanitizeName(r.moduleContext[1]) \o <<".">> \o sanitizeName(r.name)
      ELSE sanitizeName(r.name))
  \o Str_dependsOn \o (IF dep.isOptional THEN Str_dashed ELSE <<>>)

\* the edges of the classes in rest, class by class and dependency by
\* dependency: one for each dependency whose type names a rendered class
RECURSIVE EdgesToNamed(_)
EdgesToNamed(rest) ==
  IF rest = <<>> THEN <<>>
  ELSE LET c == Head(rest)
           named == SelectSeq(c.dependencies, LAMBDA dep : NamedExactly(dep.type) # {})
       IN  [i \in 1..Len(named) |->
              EdgeTo(c, named[i], out.classes[Min(NamedExactly(named[i].type))])]
           \o EdgesToNamed(Tail(rest))

\* C15: the edges of the global class diagram are, for each class and each of
\* its dependencies in order, one edge exactly when some rendered class has the
\* dependency's type as its name; its target is sanitize(module).sanitize(class)
\* when that class has a moduleContext and sanitize(class) otherwise; for a
\* dependency that names no rendered class there is no edge, and the diagram
\* is rendered all the same.
C15_GlobalEdges ==
  (fn = "ClassAnalyzer.analyze" /\ pc = "rendered") =>
     EdgeLines(out.diagrams.global) = EdgesToNamed(out.classes)

\* module M-1 holds C(s: S, a: A$) and S(r?: Repo); S and Repo are declared,
\* A$ is not: the edges are C -> S into the container of M-1 and S -> Repo at
\* the root, and there is none for A$
C15_Witness ==
  /\ fn = "ClassAnalyzer.analyze" /\ pc = "rendered"
  /\ Len(inp.modules) = 1
  /\ \E i \in 1..Len(out.classes) :
       /\ out.classes[i].name = <<"C">>
       /\ Len(out.classes[i].dependencies) = 2
       /\ NamedExactly(out.classes[i].dependencies[2].type) = {}
  /\ EdgeLines(out.diagrams.global)
       = << <<"M","_","1",".","C">> \o Str_arrow \o <<"M","_","1",".","S">> \o Str_dependsOn,
            <<"M","_","1",".","S">> \o Str_arrow \o <<"R","e","p","o">> \o Str_dependsOn
              \o Str_dashed >>

\* the graph identifier a node line declares: the text before its first colon
IdentifierAt(line) == Trim(SubSeq(line, 1, IndexOfChar(line, ":", 1) - 1))

\* the identifiers under which the lines render a class node labelled name
ClassIdentifiers(lines, name) ==
  { IdentifierAt(l) : l \in {x \in Range(lines) : EndsWith(x, <<":", " ">> \o name \o Str_open)} }

\* the module nodes of the component diagram, in order, after the node of the container
ModuleNodeLines(lines) ==
  Tail(SelectSeq(lines, LAMBDA l : EndsWith(l, <<":", " ", "|", "m", "d">>)))

\* C17: in the component diagram two modules with different names have
\* different node identifiers, and in the global class diagram two classes
\* with different names in the same container have different node identifiers.
C17_CollisionFree ==
  (fn = "ClassAnalyzer.analyze" /\ pc = "rendered") =>
     /\ LET nodes == ModuleNodeLines(out.componentDiagram)
        IN  \A i, j \in 1..Len(inp.modules) :
              inp.modules[i].name # inp.modules[j].name
                => IdentifierAt(nodes[i]) # IdentifierAt(nodes[j])
     /\ \A i, j \in 1..Len(out.classes) :
          (/\ out.classes[i].name # out.classes[j].name
           /\ out.classes[i].moduleContext = out.classes[j].moduleContext)
            => ClassIdentifiers(out.diagrams.global, out.classes[i].name)
                 \cap ClassIdentifiers(out.diagrams.global, out.classes[j].name) = {}

\* C13: no error leaves parseExistingD2File; when nothing stands at the path,
\* or the read fails, the mapping it returns is empty.
C13_SoftFailure ==
  (fn = "parseExistingD2File" /\ pc = "return") =>
     /\ ~out.threw
     /\ (inp.file = Undefined \/ Len(inp.file) = 2) => DOMAIN out.metadataMap = {}

\* the path is a directory: the read throws EISDIR and the call has returned
C13_Witness ==
  /\ fn = "parseExistingD2File" /\ pc = "return"
  /\ inp.file = ReadError("EISDIR")
  /\ ~out.threw

\* C20: a generate command started in a project root without tsconfig.json
\* exits at once: no analyzer is called, and the component diagram and the
\* class diagrams are as they were.
C20_AbortsWithoutTsconfig ==
  [][ (fn = "" /\ ~tsconfig /\ runs' = runs + 1)
        => /\ pc' = "exited"
           /\ extracted' = {}
           /\ artifact' = artifact
           /\ classArtifacts' = classArtifacts ]_vars

\* a first run wrote the diagrams, tsconfig.json was removed, and the second
\* run has exited
C20_Witness ==
  /\ pc = "exited" /\ runs = 2 /\ ~tsconfig
  /\ artifact # Undefined /\ classArtifacts # Undefined
  /\ extracted = {}

\* the names of the modules of a list, in its order
NamesOf(mods) == [i \in 1..Len(mods) |-> mods[i].name]

\* C21: in an interactive run the modules are enriched one at a time in the
\* order of the analyzed list: while the prompts of a module are shown, the
\* modules enriched so far are the modules before it, in their order; every
\* step that changes the enriched list adds exactly one module at its end, or
\* starts a new list; and the list the diagram is rendered from has the
\* length and the order of the analyzed list.
C21_SequentialEnrichment ==
  /\ [](fn = "" =>
          /\ pc = "enrichModuleWithMetadata" =>
               /\ Len(enrichedModules) < Len(cmdModules)
               /\ NamesOf(enrichedModules) = SubSeq(NamesOf(project), 1, Len(enrichedModules))
          /\ (pc \in {"promptForClassDiagramOptions", "done"} /\ isInteractive) =>
               /\ NamesOf(cmdModules) = NamesOf(project)
               /\ Len(answered[runs].answers) = Len(project)
               /\ Len(project) > 0 => enrichedModules = cmdModules)
  /\ [][ (fn = "" /\ enrichedModules' # enrichedModules) =>
           \/ enrichedModules' = <<>>
           \/ /\ Len(enrichedModules') = Len(enrichedModules) + 1
              /\ SubSeq(enrichedModules', 1, Len(enrichedModules)) = enrichedModules
              /\ enrichedModules'[Len(enrichedModules')].name
                   = project[Len(enrichedModules')].name ]_vars

\* an interactive run over the modules A and B has written the diagram after
\* the prompts of A and then of B were answered
C21_Witness ==
  /\ fn = "" /\ pc = "done" /\ isInteractive
  /\ Len(project) = 2 /\ Len(enrichedModules) = 2
  /\ NamesOf(enrichedModules) = << <<"A">>, <<"B">> >>
  /\ Len(answered[runs].answers) = 2

Max(S) == CHOOSE x \in S : \A y \in S : y <= x

\* the label a node line gives its node: the text between ': ' and ' {'
LabelAt(line) == SubSeq(line, IndexOfChar(line, ":", 1) + 2, Len(line) - 2)

\* line i opens a class node: the next line is its 'shape: class'
OpensClassNode(lines, i) == i < Len(lines) /\ Trim(lines[i + 1]) = Trim(Str_shapeClass)

\* line i opens a module container: the next line is its class
OpensContainer(lines, i) ==
  i < Len(lines) /\ Trim(lines[i + 1]) = Trim(Str_classContainerExpanded)

\* the class nodes of a diagram: the label of each with the label of the
\* container it is nested in, Undefined for a node at top level
RenderedClassNodes(lines) ==
  { << IF lines[i][1] = " "
       THEN Some(LabelAt(lines[Max({j \in 1..i : OpensContainer(lines, j)})]))
       ELSE Undefined,
       LabelAt(lines[i]) >> : i \in {k \in 1..Len(lines) : OpensClassNode(lines, k)} }

\* the classes the dependencies of the classes of the focal module name:
\* for each type the first class of the collection with that name
DirectTargets(focal, classes) ==
  { classes[Min({k \in 1..Len(classes) : classes[k].name = dep.type})] :
      dep \in { d \in UNION {Range(c.dependencies) : c \in Range(focal)} :
                  \E k \in 1..Len(classes) : classes[k].name = d.type } }

\* C22: the class diagram of a module renders a class node exactly for the
\* classes whose moduleContext is the module, inside the module's container,
\* and for the classes their dependencies name: inside a container of the
\* owning module when the class has one, at top level when it has none; and
\* every edge starts at a class of the module.
C22_PerComponentMode ==
  (fn = "ClassAnalyzer.analyze" /\ pc = "rendered") =>
     \A m \in 1..Len(inp.modules) :
        LET lines == out.diagrams.components[m].lines
            focal == SelectSeq(out.classes,
                               LAMBDA c : c.moduleContext = Some(inp.modules[m].name))
        IN  /\ RenderedClassNodes(lines)
                 = {<<c.moduleContext, c.name>> : c \in Range(focal)}
                   \cup {<<c.moduleContext, c.name>> : c \in DirectTargets(focal, out.classes)}
            /\ \A e \in Range(EdgeLines(lines)) :
                 \E c \in Range(focal) :
                    StartsWith(e, sanitizeName(inp.modules[m].name) \o <<".">>
                                  \o sanitizeName(c.name) \o Str_arrow)

\* module M-1 holds C and S, module N holds Repo, P is in no module and S
\* names Repo alone: the diagram of M-1 has C and S in M-1 and Repo in N, and
\* leaves P out; the diagram of N has Repo alone
C22_Witness ==
  /\ fn = "ClassAnalyzer.analyze" /\ pc = "rendered"
  /\ Len(inp.modules) = 2 /\ inp.modules[2].name = <<"N">>
  /\ \E i \in 1..Len(out.classes) :
       out.classes[i].name = <<"P">> /\ out.classes[i].moduleContext = Undefined
  /\ RenderedClassNodes(out.diagrams.components[1].lines)
       = { <<Some(<<"M","-","1">>), <<"C">>>>, <<Some(<<"M","-","1">>), <<"S">>>>,
           <<Some(<<"N">>), <<"R","e","p","o">>>> }
  /\ RenderedClassNodes(out.diagrams.components[2].lines)
       = { <<Some(<<"N">>), <<"R","e","p","o">>>> }
  /\ Len(EdgeLines(out.diagrams.components[1].lines)) = 2

\* the line read by the step opens the container T
OpensNamedContainer(trimmed) == StartsWith(trimmed, <<"T", ":">>) /\ Includes(trimmed, Str_md)

\* C23: in every step of the loop, a line that opens the named container
\* leaves the parser inside the container at depth 0; inside the container a
\* line '{' adds one to the depth and a line '}' takes one from it; the
\* parser leaves the container, with no current module and no module block,
\* exactly when a line '}' takes the depth to zero; and a line read outside
\* the container does not change the metadata map.
C23_ContainerTracking ==
  [][ (fn = "parseExistingD2File" /\ pc = "line" /\ pc' = "line") =>
        LET trimmed == Trim(inp'.line)
        IN  /\ OpensNamedContainer(trimmed) =>
                 out'.insideContainerExpanded /\ out'.braceDepth = 0
            /\ (~OpensNamedContainer(trimmed) /\ out.insideContainerExpanded
                  /\ trimmed = <<"{">>) =>
                 out'.insideContainerExpanded /\ out'.braceDepth = out.braceDepth + 1
            /\ (~OpensNamedContainer(trimmed) /\ out.insideContainerExpanded
                  /\ trimmed = <<"}">>) =>
                 IF out.braceDepth - 1 = 0
                 THEN /\ ~out'.insideContainerExpanded
                      /\ out'.currentModule = Undefined
                      /\ ~out'.inModuleBlock
                 ELSE out'.insideContainerExpanded /\ out'.braceDepth = out.braceDepth - 1
            /\ (out.insideContainerExpanded /\ ~out'.insideContainerExpanded) =>
                 trimmed = <<"}">> /\ out.braceDepth = 1
            /\ ~out.insideContainerExpanded => out'.metadataMap = out.metadataMap ]_vars

\* 'T: |md', '{', '  }' were read and the parser is outside again; module A
\* was recorded before
C23_Witness ==
  /\ fn = "parseExistingD2File" /\ pc = "line"
  /\ inp.read >= 3 /\ Trim(inp.line) = <<"}">>
  /\ ~out.insideContainerExpanded /\ out.braceDepth = 0
  /\ DOMAIN out.metadataMap # {}

\* the technology recorded for the module name, Undefined when there is none
TechnologyOf(map, name) == IF name \in DOMAIN map THEN map[name].technology ELSE Undefined

\* C24: once the metadata map holds a technology for a module, no line read
\* later changes that technology.
C24_TechnologyFirstMatchWins ==
  [][ (fn = "parseExistingD2File" /\ pc = "line" /\ pc' = "line") =>
        \A name \in DOMAIN out.metadataMap :
           Truthy(TechnologyOf(out.metadataMap, name))
             => TechnologyOf(out'.metadataMap, name) = TechnologyOf(out.metadataMap, name) ]_vars

\* the recovered value of a field when it is not empty, else the fallback
RecoveredOr(field, fallback) ==
  IF inp.existingMetadata # Undefined /\ Truthy(inp.existingMetadata[1][field])
  THEN inp.existingMetadata[1][field][1]
  ELSE fallback

\* C25: enrichModuleWithMetadata returns a module for every answer; when the
\* answer for technology is empty or missing the technology is the recovered
\* one if there is one, else the default technology if it is not empty, else
\* 'NestJS'; when the answer for description is empty or missing the
\* description is the recovered one if there is one, else ''; and every other
\* field of the module is as it was.
C25_EnrichmentFallbacks ==
  (fn = "enrichModuleWithMetadata" /\ pc = "return") =>
     /\ DOMAIN out = DOMAIN inp.module
     /\ \A f \in DOMAIN inp.module \ {"technology", "description"} : out[f] = inp.module[f]
     /\ ~Truthy(inp.answers.technology) =>
          out.technology
            = Some(RecoveredOr("technology",
                               IF inp.defaultTechnology # <<>> THEN inp.defaultTechnology
                               ELSE Str_NestJS))
     /\ ~Truthy(inp.answers.description) =>
          out.description = Some(RecoveredOr("description", <<>>))

\* both prompts were cancelled, technology 'x' was recovered without a
\* description, and the default technology is 'd'
C25_Witness ==
  /\ fn = "enrichModuleWithMetadata" /\ pc = "return"
  /\ inp.answers = [technology |-> Undefined, description |-> Undefined]
  /\ inp.existingMetadata = Some([technology |-> Some(<<"x">>), description |-> Undefined])
  /\ inp.defaultTechnology = <<"d">>
  /\ out.technology = Some(<<"x">>) /\ out.description = Some(<<>>)

\* C26: the line that opens the container in the text generate renders for a
\* title starts with the identifier parseExistingD2File looks for under the
\* same title: the two identifiers are equal.
C26_SameContainerIdentifier ==
  (fn = "generate" /\ pc = "return") =>
     /\ sanitizedContainer(inp.containerTitle) = containerTitleUpperCamelCase(inp.containerTitle)
     /\ sanitizedContainer(inp.containerTitle) \o Str_colonMd \in Range(out)

\* the state of the parser after each line of the file
RECURSIVE ParseTrace(_, _, _)
ParseTrace(st, lines, container) ==
  IF lines = <<>> THEN <<>>
  ELSE LET next == ParseLine(st, Head(lines), container)
       IN  IF next.insideContainerExpanded \in BOOLEAN
           THEN <<next>> \o ParseTrace(next, Tail(lines), container)
           ELSE <<>>

C28_ReferencedByReturnedClass ==
  (fn = "ClassAnalyzer.analyze" /\ pc = "return") =>
     \A i \in 1..Len(out.returned) :
        ~Truthy(out.returned[i].moduleContext) =>
           \E j \in 1..Len(out.returned) :
              j # i /\ out.returned[i].name \in TypesReferredBy(out.returned[j])

\* the full paths of the class nodes a diagram declares: the identifier of
\* the node, after the identifier of its container and a dot when it is nested
DeclaredPaths(lines) ==
  { (IF lines[i][1] = " "
     THEN IdentifierAt(lines[Max({j \in 1..i : OpensContainer(lines, j)})]) \o <<".">>
     ELSE <<>>)
    \o IdentifierAt(lines[i]) : i \in {k \in 1..Len(lines) : OpensClassNode(lines, k)} }

\* the first index at which p stands in s
IndexOf(s, p) == Min({i \in 1..(Len(s) - Len(p) + 1) : SubSeq(s, i, i + Len(p) - 1) = p})

\* the paths an edge line joins
SourcePath(edge) == SubSeq(edge, 1, IndexOf(edge, Str_arrow) - 1)

TargetPath(edge) ==
  SubSeq(edge, IndexOf(edge, Str_arrow) + Len(Str_arrow), IndexOf(edge, Str_dependsOn) - 1)

\* every edge of the diagram joins two declared class nodes
EdgesJoinDeclaredNodes(lines) ==
  \A e \in Range(EdgeLines(lines)) :
     SourcePath(e) \in DeclaredPaths(lines) /\ TargetPath(e) \in DeclaredPaths(lines)

====
